---------------------------- MODULE Spec2Model ----------------------------
(***************************************************************************)
(* A model of the line-detection core of fs_viewer.                        *)
(*                                                                         *)
(*   - Plot.prev_found_line / Plot.next_found_line (src/backend.py), the   *)
(*     navigation between the markers that find_lines has put on the       *)
(*     channels: specification SpecNav.                                    *)
(*   - detection.positions (src/detection.py), the island / peak           *)
(*     extraction: specification Spec.                                     *)
(*   - detection.peaks_positions, which src/backend.py calls with          *)
(*     threshold = 1.0 / threshold and whose body is not part of           *)
(*     src/detection.py: modelled from the description of detect_peaks in  *)
(*     spec.md, specification SpecPeaks.                                   *)
(*                                                                         *)
(* Frequencies are integers in tenths of a frequency unit (LINE_WIDTH is   *)
(* 2.6 units, 26 tenths).  Arrays are TLA+ sequences read with Python's    *)
(* 0-based indices through At and Slice, so that every index expression    *)
(* of the source is kept as it is written there.                           *)
(***************************************************************************)
EXTENDS Integers, Sequences, FiniteSets, TLC

VARIABLES
    \* ---- Plot navigation (SpecNav)
    found_lines,      \* found_lines[c]: x data of the markers of channel c
    init_frequency,   \* argument of the last prev_/next_found_line call
    nav_op,           \* "none" | "prev" | "next": the last call
    nav_result,       \* value returned by the last call
    \* ---- detection.positions (Spec)
    data_x,           \* frequency grid handed to positions
    data_y,           \* signal handed to positions
    pc,               \* "ready" | "returned" | "raised"
    peaks,            \* the array positions returned
    match,            \* the mask from which the islands were read
    islands,          \* the [i0, i1] pairs read from the mask
    \* ---- detection.peaks_positions (SpecPeaks)
    sig_x,            \* frequency grid of the channel
    sig_y,            \* signal of the channel
    runs,             \* runs[t]: outcome of find_lines(threshold = t)
    \* ---- detection.correlation (SpecCorr)
    model_y,          \* the template, resampled to the step of another_x
    another_x,        \* frequency grid of the measurement
    another_y,        \* measured signal
    scores,           \* scores[c]: outcome of correlation on c * another_y
    \* ---- two invocations of positions, step by step (SpecPar)
    inv_arg,          \* inv_arg[i]: the arrays [x, y] handed to invocation i
    inv_pc,           \* inv_pc[i]: where invocation i stands
    frames,           \* frames[f]: the local variables living in frame f
    inv_result,       \* inv_result[i]: what invocation i returned or raised
    \* ---- mplcursors.Cursor (SpecCursor)
    multiple,         \* Cursor._multiple
    enabled,          \* Cursor._enabled
    visible,          \* Cursor._visible
    selections,       \* Cursor._selections, oldest first
    last_active_selection,  \* Cursor._last_active_selection
    annotations,      \* number of annotations created so far
    cur_op,           \* the operation that returned last
    added,            \* the selection add_selection returned in it, if any
    emitted,          \* what _callbacks processed in the last operation
    \* ---- correlation.butter_bandpass_filter (SpecFilter)
    fs,               \* sampling frequency of the measurement
    low_cut,          \* lower cutoff of the last filter call
    high_cut,         \* upper cutoff of the last filter call
    btype,            \* the kind butter_bandpass chose in it
    flt_pc,           \* "ready" | "returned" | "raised"
    \* ---- Plot: channels, markers, toolbar, cursors (SpecPlot, SpecModes)
    plot_voltages,    \* Plot._plot_voltages
    plot_frequencies, \* Plot._plot_frequencies
    plot_lines_labels,  \* Plot._plot_lines_labels
    min_frequency,    \* Plot._min_frequency
    max_frequency,    \* Plot._max_frequency
    plot_found_lines, \* the data of Plot.found_lines[i]
    found_from,       \* the arrays find_lines read when it set them
    label_tries,      \* passes of the label loop in the last load_data
    plot_pc,          \* how the last call on Plot ended
    actions_enabled,  \* the toolbar actions load_data enables
    zoom_action,      \* toolbar.zoom_action.isChecked()
    pan_action,       \* toolbar.pan_action.isChecked()
    mark_action,      \* toolbar.mark_action.isChecked()
    trace_action,     \* toolbar.trace_action.isChecked()
    trace_multiple_action,  \* toolbar.trace_multiple_action.isChecked()
    mode,             \* toolbar.mode
    trace_cursor,     \* [enabled, visible] of Plot.plot_trace_cursor
    trace_multiple_cursor,  \* the same of Plot.plot_trace_multiple_cursor
    canvas_focus,     \* the canvas has the keyboard focus
    \* ---- App: the range controls and the stored settings (SpecApp)
    loading,          \* App._loading
    settings,         \* the stored frequency bounds
    spin_frequency_min,     \* [minimum, maximum, value] of the spin box
    spin_frequency_max,     \* the same of App.spin_frequency_max
    spin_frequency_center,  \* the same of App.spin_frequency_center
    spin_frequency_span,    \* the same of App.spin_frequency_span
    xlim,             \* the displayed frequency range
    \* ---- remove_spikes on its own (SpecSpikes)
    spk_given,        \* the sequence as the caller made it
    spk_sequence,     \* the same array, which remove_spikes changes in place
    spk_calls,        \* calls of remove_spikes on it so far
    \* ---- the arrays of one detection call (SpecArrays)
    call,             \* "correlation" | "positions"
    call_pc,          \* the statement the call has reached
    objects,          \* the arrays that exist: their kind and their values
    refs,             \* the array each argument and local name refers to
    before            \* the arrays as they were when the call was made

nav_vars == <<found_lines, init_frequency, nav_op, nav_result>>
det_vars == <<data_x, data_y, pc, peaks, match, islands>>
pk_vars == <<sig_x, sig_y, runs>>
corr_vars == <<model_y, another_x, another_y, scores>>
par_vars == <<inv_arg, inv_pc, frames, inv_result>>
cur_vars == <<multiple, enabled, visible, selections, last_active_selection,
              annotations, cur_op, added, emitted>>
flt_vars == <<fs, low_cut, high_cut, btype, flt_pc>>
plot_vars == <<plot_voltages, plot_frequencies, plot_lines_labels,
               min_frequency, max_frequency, plot_found_lines, found_from,
               label_tries, plot_pc, actions_enabled, zoom_action,
               pan_action, mark_action, trace_action, trace_multiple_action,
               mode, trace_cursor, trace_multiple_cursor, canvas_focus>>
app_vars == <<loading, settings, spin_frequency_min, spin_frequency_max,
              spin_frequency_center, spin_frequency_span, xlim>>
spk_vars == <<spk_given, spk_sequence, spk_calls>>
arr_vars == <<call, call_pc, objects, refs, before>>
vars == <<nav_vars, det_vars, pk_vars, corr_vars, par_vars, cur_vars,
    flt_vars, plot_vars, app_vars, spk_vars, arr_vars>>

\* What an operation of one part leaves alone: the other parts.
not_nav == <<det_vars, pk_vars, corr_vars, par_vars, cur_vars, flt_vars,
    plot_vars, app_vars, spk_vars, arr_vars>>
not_det == <<nav_vars, pk_vars, corr_vars, par_vars, cur_vars, flt_vars,
    plot_vars, app_vars, spk_vars, arr_vars>>
not_pk == <<nav_vars, det_vars, corr_vars, par_vars, cur_vars, flt_vars,
    plot_vars, app_vars, spk_vars, arr_vars>>
not_corr == <<nav_vars, det_vars, pk_vars, par_vars, cur_vars, flt_vars,
    plot_vars, app_vars, spk_vars, arr_vars>>
not_par == <<nav_vars, det_vars, pk_vars, corr_vars, cur_vars, flt_vars,
    plot_vars, app_vars, spk_vars, arr_vars>>
not_cur == <<nav_vars, det_vars, pk_vars, corr_vars, par_vars, flt_vars,
    plot_vars, app_vars, spk_vars, arr_vars>>
not_flt == <<nav_vars, det_vars, pk_vars, corr_vars, par_vars, cur_vars,
    plot_vars, app_vars, spk_vars, arr_vars>>
not_plot == <<nav_vars, det_vars, pk_vars, corr_vars, par_vars, cur_vars,
    flt_vars, app_vars, spk_vars, arr_vars>>
not_app == <<nav_vars, det_vars, pk_vars, corr_vars, par_vars, cur_vars,
    flt_vars, plot_vars, spk_vars, arr_vars>>
not_spk == <<nav_vars, det_vars, pk_vars, corr_vars, par_vars, cur_vars,
    flt_vars, plot_vars, app_vars, arr_vars>>
not_arr == <<nav_vars, det_vars, pk_vars, corr_vars, par_vars, cur_vars,
    flt_vars, plot_vars, app_vars, spk_vars>>

-----------------------------------------------------------------------------
(* Bounds of the model.                                                    *)

\* Marker frequencies are drawn from 1..MaxFreq, arguments from 0..MaxFreq+1.
MaxFreq == 4

\* Program constants.
LINES_COUNT == 2
LINE_WIDTH == 26

-----------------------------------------------------------------------------
(* numpy helpers.                                                          *)

\* a[i] with a 0-based index.
At(a, i) == a[i + 1]

\* a[i:k] with 0 <= i, clipped to the array as Python clips a slice.
Slice(a, i, k) ==
    LET hi == IF k < Len(a) THEN k ELSE Len(a)
    IN IF i >= hi THEN <<>> ELSE SubSeq(a, i + 1, hi)

Abs(v) == IF v < 0 THEN -v ELSE v

\* np.searchsorted(a, v, side) on an ascending array: the 0-based insertion
\* index, the number of elements < v (left) or <= v (right).
searchsorted(a, v, side) ==
    IF side = "left"
    THEN Cardinality({k \in 1..Len(a) : a[k] < v})
    ELSE Cardinality({k \in 1..Len(a) : a[k] <= v})

\* The ascending sequence of the elements of a finite set of integers.
RECURSIVE SortedSeq(_)
SortedSeq(S) ==
    IF S = {} THEN <<>>
    ELSE LET m == CHOOSE x \in S : \A y \in S : x <= y
         IN <<m>> \o SortedSeq(S \ {m})

\* Sequence of the elements of a that satisfy Keep, in order (a[~np.isnan(a)]).
RECURSIVE Compress(_, _)
Compress(a, keep) ==
    IF a = <<>> THEN <<>>
    ELSE (IF Head(keep) THEN <<Head(a)>> ELSE <<>>) \o Compress(Tail(a), Tail(keep))

Range(a) == {a[k] : k \in 1..Len(a)}

\* A numpy array holds its elements: the function is evaluated once, into a
\* sequence.
Array(f) == f \o <<>>

-----------------------------------------------------------------------------
(* Plot.prev_found_line, Plot.next_found_line, Plot.clear_lines.           *)

Channels == 1..LINES_COUNT
Freqs == 1..MaxFreq
Arguments == 0..(MaxFreq + 1)

\* What set_data(x[found_lines], ...) can hold: x is ascending and the peak
\* indices are ascending, so the marker frequencies are strictly ascending.
MarkerData == {SortedSeq(S) : S \in SUBSET Freqs}

\* One iteration of the loop of prev_found_line: the candidate of one
\* channel, or <<>> where the code stores nan.
PrevCandidate(line_data, f) ==
    LET i == searchsorted(line_data, f, "right") - 2
    IN IF 0 <= i /\ i < Len(line_data) /\ At(line_data, i) # f
       THEN <<At(line_data, i)>> ELSE <<>>

\* One iteration of the loop of next_found_line.
NextCandidate(line_data, f) ==
    LET i == searchsorted(line_data, f, "left") + 1
    IN IF i < Len(line_data) /\ At(line_data, i) # f
       THEN <<At(line_data, i)>> ELSE <<>>

RECURSIVE Flatten(_)
Flatten(ss) == IF ss = <<>> THEN <<>> ELSE Head(ss) \o Flatten(Tail(ss))

\* a[np.argmin(a)]: the first smallest element's index, 1-based here.
ArgMinIndex(a) ==
    CHOOSE k \in 1..Len(a) :
        /\ \A j \in 1..Len(a) : a[k] <= a[j]
        /\ \A j \in 1..(k - 1) : a[j] > a[k]

prev_found_line(lines, f) ==
    LET prev_line_freq == Flatten([c \in Channels |-> PrevCandidate(lines[c], f)])
        dist == [k \in 1..Len(prev_line_freq) |-> f - prev_line_freq[k]]
    IN IF Len(prev_line_freq) > 0
       THEN prev_line_freq[ArgMinIndex(dist)]
       ELSE f

next_found_line(lines, f) ==
    LET next_line_freq == Flatten([c \in Channels |-> NextCandidate(lines[c], f)])
        dist == [k \in 1..Len(next_line_freq) |-> next_line_freq[k] - f]
    IN IF Len(next_line_freq) > 0
       THEN next_line_freq[ArgMinIndex(dist)]
       ELSE f

NavInit ==
    /\ found_lines = [c \in Channels |-> <<>>]
    /\ init_frequency = 0
    /\ nav_op = "none"
    /\ nav_result = 0

\* find_lines as the navigation sees it: each channel's markers are replaced
\* by the x values of the peaks found, or emptied.
SetFoundLines ==
    /\ \E d \in [Channels -> MarkerData] : found_lines' = d
    /\ UNCHANGED <<init_frequency, nav_op, nav_result, not_nav>>

ClearLines ==
    /\ found_lines' = [c \in Channels |-> <<>>]
    /\ UNCHANGED <<init_frequency, nav_op, nav_result, not_nav>>

PrevFoundLine ==
    \E f \in Arguments :
        /\ init_frequency' = f
        /\ nav_op' = "prev"
        /\ nav_result' = prev_found_line(found_lines, f)
        /\ UNCHANGED <<found_lines, not_nav>>

NextFoundLine ==
    \E f \in Arguments :
        /\ init_frequency' = f
        /\ nav_op' = "next"
        /\ nav_result' = next_found_line(found_lines, f)
        /\ UNCHANGED <<found_lines, not_nav>>

-----------------------------------------------------------------------------
(* detection.positions.                                                    *)

\* Inputs of the model: every signal of at most MaxShort samples over
\* ShortValues, and every concatenation of at most MaxBlocks blocks.  The
\* blocks are four-sample pieces of signal: a flat baseline, a ripple that
\* stays on one side of zero, a dip between two shoulders, and an
\* oscillation that runs into the next block.  Dilation by 4 on a grid
\* whose first and last three samples carry no statistic needs some twenty
\* samples before two separate islands fit, which is why long signals are
\* built from blocks.
MaxShort == 3
MaxBlocks == 6
ShortValues == {-1, 0, 1}
Blocks == { <<0, 0, 0, 0>>, <<1, 0, 1, 0>>, <<1, -3, 1, 0>>, <<1, -1, 1, -1>> }

\* Grid steps in tenths of a frequency unit: 1.0 (one-sample fragments) and
\* 2.0 (empty fragments: every statistic is nan).
GridSteps == {10, 20}

ShortSignals == UNION {[1..n -> ShortValues] : n \in 0..MaxShort}
BlockSignals == {Flatten(bs) : bs \in UNION {[1..k -> Blocks] : k \in 1..MaxBlocks}}
Signals == ShortSignals \cup BlockSignals

\* np.linspace(start, stop, num, endpoint=False) with a spacing of step.
linspace(num, step) == Array([f \in 1..num |-> (f - 1) * step])

RECURSIVE Sum(_)
Sum(a) == IF a = <<>> THEN 0 ELSE Head(a) + Sum(Tail(a))

fragments(sequence, grid, center, half_width) ==
    LET i0 == searchsorted(grid, center - half_width, "left")
        j0 == searchsorted(grid, center, "left")
        k0 == 2 * j0 - i0
        i1 == IF i0 > j0 THEN j0 ELSE i0
        j1 == IF i0 > j0 THEN i0 ELSE j0
        j2 == IF j1 > k0 THEN k0 ELSE j1
        k2 == IF j1 > k0 THEN j1 ELSE k0
    IN <<Slice(sequence, i1, j2), Slice(sequence, j2, k2)>>

\* core[f] and anti_core[f] of the loop of positions.  nan is kept as a
\* flag.  np.mean divides the sum over a fragment by the fragment's length,
\* which is the same for every sample of a uniform grid and cancels in both
\* comparisons made on these values, so the sums are kept (integers).
CoreAt(x, y, f) ==
    IF At(x, f) - At(x, 0) <= LINE_WIDTH
    THEN [nan |-> TRUE, core |-> 0, anti_core |-> 0]
    ELSE IF At(x, Len(x) - 1) - At(x, f) <= LINE_WIDTH
    THEN [nan |-> TRUE, core |-> 0, anti_core |-> 0]
    ELSE LET signal_fragments == fragments(y, x, At(x, f), LINE_WIDTH \div 2)
             s0 == Sum(signal_fragments[1])
             s1 == Sum(signal_fragments[2])
         IN IF Len(signal_fragments[1]) = 0
            THEN [nan |-> TRUE, core |-> 0, anti_core |-> 0]
            ELSE [nan |-> FALSE, core |-> s0 - s1, anti_core |-> s0 + s1]

\* np.array((not_nan_core > 3. * np.std(not_nan_core))
\*          & (not_nan_anti_core < not_nan_core)) on the absolute values.
\* a > 3 * std(a) with std^2 = (m * sum(a^2) - sum(a)^2) / m^2 is, both sides
\* being >= 0, a^2 * m^2 > 9 * (m * sum(a^2) - sum(a)^2).
RawMatch(cores) ==
    LET keep == Array([k \in 1..Len(cores) |-> ~cores[k].nan])
        not_nan_core ==
            Compress(Array([k \in 1..Len(cores) |-> Abs(cores[k].core)]), keep)
        not_nan_anti_core ==
            Compress(Array([k \in 1..Len(cores) |-> Abs(cores[k].anti_core)]), keep)
        m == Len(not_nan_core)
        s1 == Sum(not_nan_core)
        s2 == Sum(Array([k \in 1..m |-> not_nan_core[k] * not_nan_core[k]]))
        var == m * s2 - s1 * s1
    IN Array([k \in 1..m |->
            /\ not_nan_core[k] * not_nan_core[k] * m * m > 9 * var
            /\ not_nan_anti_core[k] < not_nan_core[k]])

\* np.full(count, False)
Full(count, v) == Array([k \in 1..count |-> v])

\* Variant of Padded: the padding is np.full(count, True).
PaddedTrue(n, raw) ==
    LET d == n - Len(raw)
    IN Full(d \div 2, TRUE) \o raw \o Full(d - (d \div 2), TRUE)

\* np.concatenate((np.full(floor((n - m) / 2), False), match,
\*                 np.full(ceil((n - m) / 2), False)))
Padded(n, raw) ==
    LET d == n - Len(raw)
    IN Full(d \div 2, FALSE) \o raw \o Full(d - (d \div 2), FALSE)

\* Variant of remove_spikes: the spikes are left as they are.
remove_spikesKept(sequence) == sequence

\* np.roll neighbours are cyclic; the assignment is vectorised, so every
\* spike is decided on the array as it was on entry.
remove_spikes(sequence) ==
    LET n == Len(sequence)
        sequence_right == Array([k \in 1..n |-> sequence[((k - 2) % n) + 1]])
        sequence_left == Array([k \in 1..n |-> sequence[(k % n) + 1]])
    IN Array([k \in 1..n |->
            IF sequence[k] # sequence_left[k] /\ sequence_right[k] = sequence_left[k]
            THEN sequence_left[k]
            ELSE sequence[k]])

\* One iteration of ndimage.binary_dilation with the default structuring
\* element (the sample and its two neighbours) and border_value = 0.
Dilate1(mask) ==
    Array([k \in 1..Len(mask) |->
        \/ mask[k]
        \/ (k > 1 /\ mask[k - 1])
        \/ (k < Len(mask) /\ mask[k + 1])])

RECURSIVE binary_dilation(_, _)
binary_dilation(mask, iterations) ==
    IF iterations = 0 THEN mask
    ELSE binary_dilation(Dilate1(mask), iterations - 1)

\* np.argwhere(np.diff(match)): the 0-based indices k with
\* match[k] != match[k + 1], ascending.
Transitions(mask) ==
    SortedSeq({k \in 0..(Len(mask) - 2) : At(mask, k) # At(mask, k + 1)})

\* Variant of Reshape2: every two consecutive transitions make a row.
ReshapeSliding(t) == Array([j \in 1..(Len(t) - 1) |-> <<t[j], t[j + 1]>>])

\* .reshape(-1, 2)
Reshape2(t) == Array([j \in 1..(Len(t) \div 2) |-> <<t[2 * j - 1], t[2 * j]>>])

\* np.argmax: the 0-based index of the first largest element.
argmax(a) ==
    (CHOOSE k \in 1..Len(a) :
        /\ \A j \in 1..Len(a) : a[j] <= a[k]
        /\ \A j \in 1..(k - 1) : a[j] < a[k]) - 1

\* Lines 77-89: core and anti_core of every sample.
Cores(x, y) == Array([f \in 1..Len(x) |-> CoreAt(x, y, f - 1)])

\* Lines 95-102: match as it is before the cleanup.
PaddedMatch(x, cores) == Padded(Len(x), RawMatch(cores))

\* Lines 108-110: remove_spikes, four iterations of dilation, remove_spikes.
Cleanup(m0) == remove_spikes(binary_dilation(remove_spikes(m0), 4))

\* The mask of positions just before the islands are read.
CleanMatch(x, y) == Cleanup(PaddedMatch(x, Cores(x, y)))

\* Variant of IslandPeak: the offset is the island's end, i[1].
IslandPeakFromEnd(y, i) == i[2] + argmax(Slice(y, i[1], i[2]))

\* The peak of one island: i[0] + np.argmax(data_y[i[0]:i[1]]).
IslandPeak(y, i) == i[1] + argmax(Slice(y, i[1], i[2]))

\* Lines 76-113 of positions: what they return, or that reshape raised
\* ValueError (an odd number of transitions does not fill rows of 2).
ExtractPeaks(x, y) ==
    LET mask == CleanMatch(x, y)
        t == Transitions(mask)
    IN IF Len(t) % 2 # 0
       THEN [pc |-> "raised", peaks |-> <<>>, match |-> mask, islands |-> <<>>]
       ELSE LET isl == Reshape2(t)
            IN [pc |-> "returned",
                peaks |-> Array([j \in 1..Len(isl) |-> IslandPeak(y, isl[j])]),
                match |-> mask,
                islands |-> isl]

\* Variant of positions: an empty input is refused with an exception.
positionsRefusingEmpty(x, y) ==
    IF Len(x) = 0 \/ Len(y) = 0
    THEN [pc |-> "raised", peaks |-> <<>>, match |-> <<>>, islands |-> <<>>]
    ELSE ExtractPeaks(x, y)

\* positions(data_x, data_y).
positions(x, y) ==
    IF Len(x) = 0 \/ Len(y) = 0
    THEN [pc |-> "returned", peaks |-> <<>>, match |-> <<>>, islands |-> <<>>]
    ELSE ExtractPeaks(x, y)

DetInit ==
    /\ data_y \in Signals
    /\ \E step \in GridSteps : data_x = linspace(Len(data_y), step)
    /\ pc = "ready"
    /\ peaks = <<>>
    /\ match = <<>>
    /\ islands = <<>>

Positions ==
    /\ pc = "ready"
    /\ \E r \in {positions(data_x, data_y)} :
          /\ pc' = r.pc
          /\ peaks' = r.peaks
          /\ match' = r.match
          /\ islands' = r.islands
    /\ UNCHANGED <<data_x, data_y, not_det>>

-----------------------------------------------------------------------------
(* detection.peaks_positions, from the specification's description of      *)
(* detect_peaks: rolling standard deviation, quantile threshold,           *)
(* morphological cleanup, islands, one peak per island.                    *)

MaxPkBlocks == 4

\* Thresholds whose reciprocal is exact in binary floating point, so that
\* the quantile position (m - 1) * (1 - 1 / threshold) is exact too.
Thresholds == {1, 2, 4}

\* Grid steps of 0.5 and 1.0: windows of 5 and 3 samples.
PkSteps == {5, 10}

\* Eight-sample pieces: baseline, a broad line, a ripple and a one-sample
\* spike.
PkBlocks ==
    { <<0, 0, 0, 0, 0, 0, 0, 0>>,
      <<0, 2, 4, 6, 4, 2, 0, 0>>,
      <<0, 1, 0, 1, 0, 1, 0, 1>>,
      <<0, 0, 0, 5, 0, 0, 0, 0>> }

PkSignals ==
    ShortSignals \cup
    {Flatten(bs) : bs \in UNION {[1..k -> PkBlocks] : k \in 3..MaxPkBlocks}}

\* round(LINE_WIDTH / dx), dx = data_x[1] - data_x[0].
RollingWindow(x) ==
    LET dx == At(x, 1) - At(x, 0)
    IN (2 * LINE_WIDTH + dx) \div (2 * dx)

\* The centred rolling standard deviation over window samples, squared and
\* scaled by window^2 (window * sum(y^2) - sum(y)^2): the order of the
\* values, which is all the quantile test reads, is that of the deviations.
\* Missing (NaN) within half a window of either edge.
rolling_std(y, window) ==
    LET half == window \div 2
        n == Len(y)
    IN Array([k \in 1..n |->
           IF k - half < 1 \/ k + half > n
           THEN [nan |-> TRUE, v |-> 0]
           ELSE LET w == SubSeq(y, k - half, k + half)
                    s1 == Sum(w)
                    s2 == Sum([j \in 1..Len(w) |-> w[j] * w[j]])
                IN [nan |-> FALSE, v |-> window * s2 - s1 * s1]])

\* The value at 0-based position h of the ascending order of vals.
SortedAt(vals, h) ==
    CHOOSE v \in Range(vals) :
        /\ Cardinality({k \in 1..Len(vals) : vals[k] < v}) <= h
        /\ h < Cardinality({k \in 1..Len(vals) : vals[k] <= v})

\* The least deviation that is at or above the (1 - 1/threshold) quantile
\* (linear interpolation between the two nearest order statistics) of the
\* non-missing values: the one at position h when h = (m - 1)(1 - 1/threshold)
\* is whole, the next one otherwise.
QuantileCut(vals, threshold) ==
    LET num == (Len(vals) - 1) * (threshold - 1)
        lo == num \div threshold
    IN IF num % threshold = 0 THEN SortedAt(vals, lo) ELSE SortedAt(vals, lo + 1)

\* Variant of RawMask: the samples at or below the quantile are flagged.
RawMaskBelow(std, threshold) ==
    LET keep == Array([k \in 1..Len(std) |-> ~std[k].nan])
        vals == Compress(Array([k \in 1..Len(std) |-> std[k].v]), keep)
    IN IF Len(vals) = 0
       THEN Full(Len(std), FALSE)
       ELSE \* the quantile as the greatest value at or below it
            LET num == (Len(vals) - 1) * (threshold - 1)
                cut == SortedAt(vals, num \div threshold)
            IN Array([k \in 1..Len(std) |-> ~std[k].nan /\ std[k].v <= cut])

\* Step 2: every sample whose rolling deviation is at or above the
\* quantile; a missing deviation is never flagged.
RawMask(std, threshold) ==
    LET keep == Array([k \in 1..Len(std) |-> ~std[k].nan])
        vals == Compress(Array([k \in 1..Len(std) |-> std[k].v]), keep)
    IN IF Len(vals) = 0
       THEN Full(Len(std), FALSE)
       ELSE LET cut == QuantileCut(vals, threshold)
            IN Array([k \in 1..Len(std) |-> ~std[k].nan /\ std[k].v >= cut])

\* One iteration of binary erosion, one neighbour on each side, false
\* outside the array.
Erode1(mask) ==
    Array([k \in 1..Len(mask) |->
        mask[k] /\ k > 1 /\ mask[k - 1] /\ k < Len(mask) /\ mask[k + 1]])

RECURSIVE binary_erosion(_, _)
binary_erosion(mask, iterations) ==
    IF iterations = 0 THEN mask
    ELSE binary_erosion(Erode1(mask), iterations - 1)

\* Steps 3 and 4: dilate by N, erode by N + 1, dilate by 1 (N = 8), then
\* force the first and the last sample to false.
CleanMask(raw) ==
    LET m == binary_dilation(binary_erosion(binary_dilation(raw, 8), 9), 1)
    IN Array([k \in 1..Len(m) |-> m[k] /\ k # 1 /\ k # Len(m)])

\* Step 5: the islands [start, end), the maximal runs of true, in index
\* order.
TrueRuns(mask) ==
    LET starts == SortedSeq({k \in 0..(Len(mask) - 1) :
                        At(mask, k) /\ (k = 0 \/ ~At(mask, k - 1))})
        ends == SortedSeq({k \in 1..Len(mask) :
                        At(mask, k - 1) /\ (k = Len(mask) \/ ~At(mask, k))})
    IN Array([j \in 1..Len(starts) |-> <<starts[j], ends[j]>>])

\* Step 6: the islands whose maximum is on neither of their end samples.
Accepted(y, isl) ==
    LET keep == Array([j \in 1..Len(isl) |->
                    LET a == argmax(Slice(y, isl[j][1], isl[j][2]))
                    IN a # 0 /\ a # isl[j][2] - isl[j][1] - 1])
    IN Compress(isl, keep)

NoRun == [done |-> FALSE, peaks |-> <<>>, raw |-> <<>>, mask |-> <<>>, islands |-> <<>>]

\* One call on (x, y) with the given threshold: the peaks, and the raw
\* mask, the cleaned mask and the islands they come from.
peaks_positions(x, y, threshold) ==
    IF Len(x) < 2 \/ Len(y) < 2
    THEN [done |-> TRUE, peaks |-> <<>>, raw |-> <<>>, mask |-> <<>>, islands |-> <<>>]
    ELSE LET raw == RawMask(rolling_std(y, RollingWindow(x)), threshold)
             mask == CleanMask(raw)
             isl == TrueRuns(mask)
             acc == Accepted(y, isl)
         IN [done |-> TRUE,
             peaks |-> Array([j \in 1..Len(acc) |-> IslandPeak(y, acc[j])]),
             raw |-> raw,
             mask |-> mask,
             islands |-> isl]

PkInit ==
    /\ sig_y \in PkSignals
    /\ \E step \in PkSteps : sig_x = linspace(Len(sig_y), step)
    /\ runs = [t \in Thresholds |-> NoRun]

\* A detection call on the loaded signal; calls with other thresholds on
\* the same signal are kept side by side.
DetectPeaks ==
    /\ \E t \in Thresholds :
          runs' = [runs EXCEPT ![t] = peaks_positions(sig_x, sig_y, t)]
    /\ UNCHANGED <<sig_x, sig_y, not_pk>>

-----------------------------------------------------------------------------
(* detection.correlation.                                                  *)

MaxModel == 3
MaxMeasured == 3
ModelValues == {-1, 1, 2}
MeasuredValues == {0, 1, 2}

\* The measured signal is tried as it is and multiplied by 2 and by 3.
Scales == {1, 2, 3}

Templates == UNION {[1..n -> ModelValues] : n \in 1..MaxModel}
Measurements == UNION {[1..n -> MeasuredValues] : n \in 0..MaxMeasured}

Reverse(a) == Array([k \in 1..Len(a) |-> a[Len(a) + 1 - k]])

\* The sum over j of long[k - Len(short) // 2 + j] * short[j] (0-based),
\* over the j for which the index falls inside long: numpy's 'same' window
\* when the first operand is the longer one.
SameWindow(long, short) ==
    LET n_left == Len(short) \div 2
    IN Array([k \in 1..Len(long) |->
           Sum([j \in 1..Len(short) |->
               LET i == (k - 1) - n_left + (j - 1)
               IN IF 0 <= i /\ i < Len(long) THEN At(long, i) * short[j] ELSE 0])])

\* np.correlate(a, v, 'same'): max(len(a), len(v)) samples; when a is the
\* shorter operand numpy swaps them and reverses the result.
correlate_same(a, v) ==
    IF Len(a) >= Len(v) THEN SameWindow(a, v) ELSE Reverse(SameWindow(v, a))

\* Variant of Normalized: the division by np.std is left out.
NormalizedMeanOnly(raw) ==
    LET m == Len(raw)
        s1 == Sum(raw)
    IN [nan |-> FALSE,
        num |-> Array([k \in 1..m |-> m * raw[k] - s1]),
        den2 |-> m * m]

\* _corr -= np.mean(_corr); _corr /= np.std(_corr).  Sample k becomes
\* (m * raw[k] - sum) / sqrt(m * sum of squares - sum^2), kept as the
\* integer numerators num and the squared denominator den2.  A constant
\* _corr gives 0 / 0: every sample is NaN.
Normalized(raw) ==
    LET m == Len(raw)
        s1 == Sum(raw)
        s2 == Sum([k \in 1..m |-> raw[k] * raw[k]])
        d == m * s2 - s1 * s1
    IN [nan |-> d = 0,
        num |-> Array([k \in 1..m |-> m * raw[k] - s1]),
        den2 |-> d]

NoScore == [pc |-> "none", size |-> 0, nan |-> FALSE, num |-> <<>>, den2 |-> 0]

\* Variant of correlation: the another_y.size test is left out.
correlationUnguarded(template, x, y) ==
    IF Len(y) = 0 \/ Len(template) = 0 \/ Len(x) < 2
    THEN [pc |-> "raised", size |-> 0, nan |-> FALSE, num |-> <<>>, den2 |-> 0]
    ELSE LET norm == Normalized(correlate_same(y, template))
         IN [pc |-> "returned", size |-> Len(norm.num), nan |-> norm.nan,
             num |-> norm.num, den2 |-> norm.den2]

\* correlation(model_y, another_x, another_y).  np.correlate raises
\* ValueError on an empty template, another_x[1] raises IndexError on a
\* grid of fewer than two samples.  The filter (lfilter of a high-pass
\* Butterworth) keeps the number of samples and keeps NaN; its output is
\* recorded by the normalised sequence it is applied to.
correlation(template, x, y) ==
    IF Len(y) # 0
    THEN IF Len(template) = 0 \/ Len(x) < 2
         THEN [pc |-> "raised", size |-> 0, nan |-> FALSE, num |-> <<>>, den2 |-> 0]
         ELSE LET norm == Normalized(correlate_same(y, template))
              IN [pc |-> "returned", size |-> Len(norm.num), nan |-> norm.nan,
                  num |-> norm.num, den2 |-> norm.den2]
    ELSE [pc |-> "returned", size |-> 0, nan |-> FALSE, num |-> <<>>, den2 |-> 0]

Scaled(y, c) == Array([k \in 1..Len(y) |-> c * y[k]])

CorrInit ==
    /\ model_y \in Templates
    /\ another_y \in Measurements
    /\ another_x = linspace(Len(another_y), 1)
    /\ scores = [c \in Scales |-> NoScore]

\* One call of correlation on the measurement multiplied by c.
Correlation ==
    /\ \E c \in Scales :
          scores' = [scores EXCEPT
                        ![c] = correlation(model_y, another_x, Scaled(another_y, c))]
    /\ UNCHANGED <<model_y, another_x, another_y, not_corr>>

-----------------------------------------------------------------------------
(* Two invocations of positions whose statements interleave.               *)

Invocations == {1, 2}

\* Signals with different outcomes: empty, one sample, flat, one island,
\* an island cut by the start of the grid, two islands.
ParSignals ==
    { <<>>,
      <<1>>,
      <<0, 0, 0, 0, 0, 0, 0, 0>>,
      <<1, 0, 1, 0, 1, -3, 1, 0, 1, 0, 1, 0>>,
      <<1, -1, 1, -1, 1, -3, 1, 0, 1, -3, 1, 0>>,
      <<1, -1, 1, -1, 1, 0, 1, 0, 1, -3, 1, 0>>,
      <<0, 0, 0, 0, 1, -3, 1, 0, 1, -1, 1, -1,
        1, -1, 1, -1, 1, -3, 1, 0, 0, 0, 0, 0>> }

\* Variant of Frame: the arrays are kept on the function object between
\* calls, so a call starts from what the previous one left.
FrameKept(i) == 2

\* Variant of Frame: core, match, islands and peaks are module-level
\* names, one set for every invocation.
FrameShared(i) == 1

\* The frame holding the local variables of invocation i: every call of a
\* Python function has a frame of its own.
Frame(i) == i

NoFrame == [cores |-> <<>>, match |-> <<>>, islands |-> <<>>]
NoResult == [pc |-> "none", peaks |-> <<>>]
Raised == [pc |-> "raised", peaks |-> <<>>]

ParInit ==
    /\ inv_arg \in [Invocations ->
                      {[x |-> linspace(Len(y), 10), y |-> y] : y \in ParSignals}]
    /\ inv_pc = [i \in Invocations |-> "ready"]
    /\ frames = [f \in Invocations |-> NoFrame]
    /\ inv_result = [i \in Invocations |-> NoResult]

\* Lines 73-89: the guard, then core and anti_core.
CoreLoop(i) ==
    /\ inv_pc[i] = "ready"
    /\ IF Len(inv_arg[i].x) = 0 \/ Len(inv_arg[i].y) = 0
       THEN /\ inv_pc' = [inv_pc EXCEPT ![i] = "returned"]
            /\ inv_result' = [inv_result EXCEPT ![i] = [pc |-> "returned", peaks |-> <<>>]]
            /\ UNCHANGED frames
       ELSE /\ inv_pc' = [inv_pc EXCEPT ![i] = "cored"]
            /\ frames' = [frames EXCEPT ![Frame(i)].cores =
                              Cores(inv_arg[i].x, inv_arg[i].y)]
            /\ UNCHANGED inv_result
    /\ UNCHANGED <<inv_arg, not_par>>

\* Lines 95-102; np.full raises ValueError on a negative count.
MatchMask(i) ==
    /\ inv_pc[i] = "cored"
    /\ \E raw \in {RawMatch(frames[Frame(i)].cores)} :
          IF Len(raw) > Len(inv_arg[i].x)
          THEN /\ inv_pc' = [inv_pc EXCEPT ![i] = "raised"]
               /\ inv_result' = [inv_result EXCEPT ![i] = Raised]
               /\ UNCHANGED frames
          ELSE /\ inv_pc' = [inv_pc EXCEPT ![i] = "matched"]
               /\ frames' = [frames EXCEPT ![Frame(i)].match =
                                 Padded(Len(inv_arg[i].x), raw)]
               /\ UNCHANGED inv_result
    /\ UNCHANGED <<inv_arg, not_par>>

\* Line 108.
FirstDespike(i) ==
    /\ inv_pc[i] = "matched"
    /\ inv_pc' = [inv_pc EXCEPT ![i] = "despiked"]
    /\ frames' = [frames EXCEPT ![Frame(i)].match =
                      remove_spikes(frames[Frame(i)].match)]
    /\ UNCHANGED <<inv_arg, inv_result, not_par>>

\* Line 109.
Dilate(i) ==
    /\ inv_pc[i] = "despiked"
    /\ inv_pc' = [inv_pc EXCEPT ![i] = "dilated"]
    /\ frames' = [frames EXCEPT ![Frame(i)].match =
                      binary_dilation(frames[Frame(i)].match, 4)]
    /\ UNCHANGED <<inv_arg, inv_result, not_par>>

\* Line 110.
SecondDespike(i) ==
    /\ inv_pc[i] = "dilated"
    /\ inv_pc' = [inv_pc EXCEPT ![i] = "cleaned"]
    /\ frames' = [frames EXCEPT ![Frame(i)].match =
                      remove_spikes(frames[Frame(i)].match)]
    /\ UNCHANGED <<inv_arg, inv_result, not_par>>

\* Line 111: reshape raises on an odd number of transitions.
ReadIslands(i) ==
    /\ inv_pc[i] = "cleaned"
    /\ \E t \in {Transitions(frames[Frame(i)].match)} :
          IF Len(t) % 2 # 0
          THEN /\ inv_pc' = [inv_pc EXCEPT ![i] = "raised"]
               /\ inv_result' = [inv_result EXCEPT ![i] = Raised]
               /\ UNCHANGED frames
          ELSE /\ inv_pc' = [inv_pc EXCEPT ![i] = "paired"]
               /\ frames' = [frames EXCEPT ![Frame(i)].islands = Reshape2(t)]
               /\ UNCHANGED inv_result
    /\ UNCHANGED <<inv_arg, not_par>>

\* Lines 112-113; np.argmax raises ValueError on an empty slice.
PickPeaks(i) ==
    /\ inv_pc[i] = "paired"
    /\ \E isl \in {frames[Frame(i)].islands} :
          IF \E j \in 1..Len(isl) : Slice(inv_arg[i].y, isl[j][1], isl[j][2]) = <<>>
          THEN /\ inv_pc' = [inv_pc EXCEPT ![i] = "raised"]
               /\ inv_result' = [inv_result EXCEPT ![i] = Raised]
          ELSE /\ inv_pc' = [inv_pc EXCEPT ![i] = "returned"]
               /\ inv_result' = [inv_result EXCEPT ![i] =
                     [pc |-> "returned",
                      peaks |-> Array([j \in 1..Len(isl) |->
                                          IslandPeak(inv_arg[i].y, isl[j])])]]
    /\ UNCHANGED <<inv_arg, frames, not_par>>

-----------------------------------------------------------------------------
(* mplcursors.Cursor: the list of selections (src/mplcursors).             *)

\* Annotations one cursor creates before the exploration stops.
MaxAnnotations == 4

\* len(xys): the points of the selected line.
NumPoints == 3

Points == 0..(NumPoints - 1)
NoPick == -1
NoSelection == [annotation |-> 0, index |-> -1]

Keys == {"toggle_enabled", "toggle_visible", "left", "right", "up", "down", "other"}

\* list.remove: the first element equal to sel goes.
RECURSIVE ListRemove(_, _)
ListRemove(list, sel) ==
    IF list = <<>> THEN <<>>
    ELSE IF Head(list) = sel THEN Tail(list)
    ELSE <<Head(list)>> \o ListRemove(Tail(list), sel)

\* Cursor.remove_selection, as far as _selections goes.
remove_selection(list, sel) == ListRemove(list, sel)

\* Variant of Superseded: self.selections[1:].
SupersededFromSecond(list) == SubSeq(list, 2, Len(list))

\* self.selections[:-1]: every selection but the newest.
Superseded(list) == SubSeq(list, 1, Len(list) - 1)

RECURSIVE RemoveEach(_, _)
RemoveEach(list, gone) ==
    IF gone = <<>> THEN list
    ELSE RemoveEach(remove_selection(list, Head(gone)), Tail(gone))

\* Cursor.add_selection: _selections once it returned.
add_selection(list, sel, many) ==
    LET appended == Append(list, sel)
    IN IF ~many THEN RemoveEach(appended, Superseded(appended)) ELSE appended

\* self._callbacks.process(event, sel)
Event(event, sel) == [event |-> event, sel |-> sel]

\* The events of remove_selection called on each of gone in turn.
RemoveEvents(gone) == [k \in 1..Len(gone) |-> Event("remove", gone[k])]

\* Variant of add_selection_events: the removal loop before the addition.
add_selection_eventsRemovalFirst(list, sel, many) ==
    LET appended == Append(list, sel)
    IN (IF ~many THEN Array(RemoveEvents(Superseded(appended))) ELSE <<>>)
           \o <<Event("add", sel)>>

\* Cursor.add_selection: what _callbacks processes, in order: "add" at line
\* 259, then the removal loop of lines 298-301.
add_selection_events(list, sel, many) ==
    LET appended == Append(list, sel)
    IN <<Event("add", sel)>>
           \o (IF ~many THEN Array(RemoveEvents(Superseded(appended))) ELSE <<>>)

\* _pick_info._move_within_points on finite points.
move(sel, key) ==
    IF key = "left" THEN [sel EXCEPT !.index = (sel.index - 1) % NumPoints]
    ELSE IF key = "right" THEN [sel EXCEPT !.index = (sel.index + 1) % NumPoints]
    ELSE sel

\* list[i] of Python: a negative i counts from the end.
HasIndex(list, i) == -Len(list) <= i /\ i < Len(list)
PyIndex(list, i) == IF i < 0 THEN list[Len(list) + i + 1] ELSE list[i + 1]

NewSelection(index) == [annotation |-> annotations + 1, index |-> index]

CurInit ==
    /\ multiple \in BOOLEAN
    /\ enabled = TRUE
    /\ visible = TRUE
    /\ selections = <<>>
    /\ last_active_selection = -1
    /\ annotations = 0
    /\ cur_op = "none"
    /\ added = NoSelection
    /\ emitted = <<>>

\* Cursor.add_selection(pi), lines 228-303.
AddSelection(index) ==
    /\ annotations < MaxAnnotations
    /\ selections' = add_selection(selections, NewSelection(index), multiple)
    /\ annotations' = annotations + 1
    /\ last_active_selection' = -1
    /\ added' = NewSelection(index)
    /\ emitted' = add_selection_events(selections, NewSelection(index), multiple)
    /\ cur_op' = "add_selection"
    /\ UNCHANGED <<multiple, enabled, visible, not_cur>>

\* _mouse_click_handler with the select button, lines 355-360 and 377-394.
SelectButtonPress(locked, dblclick, pick) ==
    /\ annotations < MaxAnnotations
    /\ cur_op' = "select"
    /\ IF enabled /\ locked = dblclick /\ pick # NoPick
       THEN /\ selections' = add_selection(selections, NewSelection(pick), multiple)
            /\ annotations' = annotations + 1
            /\ last_active_selection' = -1
            /\ added' = NewSelection(pick)
            /\ emitted' = add_selection_events(selections, NewSelection(pick),
                                               multiple)
       ELSE /\ added' = NoSelection
            /\ emitted' = <<>>
            /\ UNCHANGED <<selections, annotations, last_active_selection>>
    /\ UNCHANGED <<multiple, enabled, visible, not_cur>>

\* _mouse_click_handler with the deselect button, lines 355-360 and
\* 396-406; hit is the place of the topmost selection under the click,
\* 0 when the click is on none.
DeselectButtonPress(locked, dblclick) ==
    /\ cur_op' = "deselect"
    /\ added' = NoSelection
    /\ \E hit \in 0..Len(selections) :
          IF enabled /\ locked = dblclick /\ hit > 0
          THEN /\ selections' = remove_selection(selections, selections[hit])
               /\ emitted' = <<Event("remove", selections[hit])>>
          ELSE /\ emitted' = <<>>
               /\ UNCHANGED selections
    /\ UNCHANGED <<multiple, enabled, visible, annotations,
                   last_active_selection, not_cur>>

\* _on_key_press, lines 408-421.
KeyPress(key) ==
    /\ annotations < MaxAnnotations
    /\ cur_op' = "key_press"
    /\ enabled' = IF key = "toggle_enabled" THEN ~enabled ELSE enabled
    /\ visible' = IF key = "toggle_visible" THEN ~visible ELSE visible
    /\ IF HasIndex(selections, last_active_selection)
          /\ key \in {"left", "right", "up", "down"}
       THEN \E sel \in {PyIndex(selections, last_active_selection)} :
              \E new \in {[annotation |-> annotations + 1,
                           index |-> move(sel, key).index]} :
                /\ selections' = add_selection(remove_selection(selections, sel),
                                               new, multiple)
                /\ annotations' = annotations + 1
                /\ last_active_selection' = -1
                /\ added' = new
                /\ emitted' = <<Event("remove", sel)>> \o
                       add_selection_events(remove_selection(selections, sel),
                                            new, multiple)
       ELSE /\ added' = NoSelection
            /\ emitted' = <<>>
            /\ UNCHANGED <<selections, annotations, last_active_selection>>
    /\ UNCHANGED <<multiple, not_cur>>

\* _pick_event_handler, lines 362-367: the newest selection at the picked
\* point becomes the active one.
PickEvent(index) ==
    /\ cur_op' = "pick"
    /\ added' = NoSelection
    /\ emitted' = <<>>
    /\ LET at == {k \in 1..Len(selections) : selections[k].index = index}
       IN IF enabled /\ at # {}
          THEN last_active_selection' = (CHOOSE k \in at : \A j \in at : j <= k) - 1
          ELSE UNCHANGED last_active_selection
    /\ UNCHANGED <<multiple, enabled, visible, selections, annotations, not_cur>>

-----------------------------------------------------------------------------
(* correlation.butter_bandpass_filter: the choice of the filter.           *)

\* A cutoff is a finite number or np.inf.
Finite(v) == [inf |-> FALSE, v |-> v]
Infinity == [inf |-> TRUE, v |-> 0]

\* fs is a multiple of 200, so that 0.005 * fs is an integer; a negative fs
\* is what a descending grid gives.
FsValues == {200, 400, 600, -200}
LowCuts == {Finite(-1), Finite(0), Finite(1), Finite(50), Finite(150)}
HighCuts ==
    {Finite(0), Finite(60), Finite(100), Finite(250), Finite(19999),
     Finite(20000), Infinity}

\* cut / nyq with nyq = 0.5 * fs: the fraction num / den with den > 0, or
\* an infinity with the sign of fs.
Normalised(cut, f) ==
    IF cut.inf
    THEN [inf |-> TRUE, sign |-> IF f > 0 THEN 1 ELSE -1, num |-> 0, den |-> 1]
    ELSE IF f > 0
    THEN [inf |-> FALSE, sign |-> 0, num |-> 2 * cut.v, den |-> f]
    ELSE [inf |-> FALSE, sign |-> 0, num |-> -2 * cut.v, den |-> -f]

\* r > 0. and r < n
Positive(r) == IF r.inf THEN r.sign > 0 ELSE r.num > 0
LessThan(r, n) == IF r.inf THEN r.sign < 0 ELSE r.num < n * r.den

\* Variant of butter_bandpass: the kinds as the description of the
\* Correlator names them.
butter_bandpassAsDescribed(low_cut_, high_cut_, f) ==
    LET low == Normalised(low_cut_, f)
        high == Normalised(high_cut_, f)
    IN IF Positive(low) /\ LessThan(high, f) THEN "bandpass"
       ELSE IF Positive(low) /\ ~LessThan(high, f) THEN "lowpass"
       ELSE IF ~Positive(low) /\ LessThan(high, f) THEN "highpass"
       ELSE "none"

\* Variant of butter_bandpass: the last case falls through to a high-pass.
butter_bandpassNoRaise(low_cut_, high_cut_, f) ==
    LET low == Normalised(low_cut_, f)
        high == Normalised(high_cut_, f)
    IN IF Positive(low) /\ LessThan(high, f) THEN "bandpass"
       ELSE IF ~Positive(low) /\ LessThan(high, f) THEN "lowpass"
       ELSE "highpass"

\* butter_bandpass, lines 47-57: the btype handed to butter, "none" when
\* ValueError is raised instead.  low and high are the cutoffs divided by
\* nyq; high is compared with fs.
butter_bandpass(low_cut_, high_cut_, f) ==
    LET low == Normalised(low_cut_, f)
        high == Normalised(high_cut_, f)
    IN IF Positive(low) /\ LessThan(high, f) THEN "bandpass"
       ELSE IF Positive(low) /\ ~LessThan(high, f) THEN "highpass"
       ELSE IF ~Positive(low) /\ LessThan(high, f) THEN "lowpass"
       ELSE "none"

\* The critical frequencies butter receives (lines 53, 55).
Wn(kind, low_cut_, high_cut_, f) ==
    IF kind = "bandpass" THEN {Normalised(low_cut_, f), Normalised(high_cut_, f)}
    ELSE IF kind = "highpass" THEN {Normalised(low_cut_, f)}
    ELSE IF kind = "lowpass" THEN {Normalised(high_cut_, f)}
    ELSE {}

\* scipy.signal.butter takes critical frequencies inside (0, 1) and raises
\* ValueError on those outside [0, 1]; whether 0 and 1 themselves are
\* taken depends on the release of scipy.
Inside(r) == ~r.inf /\ 0 < r.num /\ r.num < r.den
OnBound(r) == ~r.inf /\ (r.num = 0 \/ r.num = r.den)
butter(w) ==
    IF \A r \in w : Inside(r) THEN {"returned"}
    ELSE IF \A r \in w : Inside(r) \/ OnBound(r) THEN {"returned", "raised"}
    ELSE {"raised"}

\* butter_bandpass_filter, lines 46-59: the outcomes of one call.
butter_bandpass_filter(low_cut_, high_cut_, f) ==
    LET kind == butter_bandpass(low_cut_, high_cut_, f)
    IN IF kind = "none" THEN {[btype |-> "none", pc |-> "raised"]}
       ELSE {[btype |-> kind, pc |-> o] : o \in butter(Wn(kind, low_cut_, high_cut_, f))}

\* low_cut=0.005 * fs of line 66.
DefaultLowCut(f) == Finite(f \div 200)

FltInit ==
    /\ fs \in FsValues
    /\ low_cut = Finite(0)
    /\ high_cut = Finite(0)
    /\ btype = "none"
    /\ flt_pc = "ready"

\* butter_bandpass_filter called with cutoffs of any kind.
ButterBandpassFilter(lo, hi) ==
    /\ \E r \in butter_bandpass_filter(lo, hi, fs) :
          /\ btype' = r.btype
          /\ flt_pc' = r.pc
    /\ low_cut' = lo
    /\ high_cut' = hi
    /\ UNCHANGED <<fs, not_flt>>

\* The call of lines 66-67: low_cut=0.005 * fs, high_cut=np.inf.
CorrelationFilter ==
    /\ \E r \in butter_bandpass_filter(DefaultLowCut(fs), Infinity, fs) :
          /\ btype' = r.btype
          /\ flt_pc' = r.pc
    /\ low_cut' = DefaultLowCut(fs)
    /\ high_cut' = Infinity
    /\ UNCHANGED <<fs, not_flt>>

-----------------------------------------------------------------------------
(* Plot: load_data, clear, find_lines (src/backend.py).                    *)
(*                                                                         *)
(* The artists of matplotlib (the drawn lines, the legend) and the voltage *)
(* extremes are not part of the state; clear_selections empties the        *)
(* selection lists, which the cursor model holds.                          *)

\* Optional[float]
None == [none |-> TRUE, v |-> 0]
Some(v) == [none |-> FALSE, v |-> v]

nonemin(a, b) ==
    IF a.none THEN b ELSE IF b.none THEN a ELSE IF a.v <= b.v THEN a ELSE b
nonemax(a, b) ==
    IF a.none THEN b ELSE IF b.none THEN a ELSE IF a.v >= b.v THEN a ELSE b

\* A label is a file name; "a (2)" is <<"a", 2>>, so that the suffix the
\* label loop appends gives the string a file may have as its name.
Empty == <<"_*empty*_">>
Suffixed(new_label_base, i) == Append(new_label_base, i)

\* The files open_file_dialog can give: whether fn.fmd and fn.frd exist,
\* FStart and FStop of the .fmd when it has them, column 0 of the .frd.
\* The ranges are multiples of the sizes, which keeps np.linspace exact.
Files ==
    { [name |-> <<"a">>, fmd |-> TRUE, frd |-> TRUE,
       start |-> Some(0), stop |-> Some(6), v |-> <<1, 2>>],
      [name |-> <<"a">>, fmd |-> TRUE, frd |-> TRUE,
       start |-> None, stop |-> None, v |-> <<2, 1, 3>>],
      [name |-> <<"a", 2>>, fmd |-> TRUE, frd |-> TRUE,
       start |-> Some(6), stop |-> Some(18), v |-> <<3, 1>>],
      [name |-> <<"b">>, fmd |-> TRUE, frd |-> TRUE,
       start |-> Some(0), stop |-> Some(6), v |-> <<>>],
      [name |-> <<"b">>, fmd |-> TRUE, frd |-> FALSE,
       start |-> Some(0), stop |-> Some(6), v |-> <<>>],
      [name |-> <<"b">>, fmd |-> FALSE, frd |-> FALSE,
       start |-> None, stop |-> None, v |-> <<>>] }

\* np.linspace(start, stop, num, endpoint=False)
linspace_open(start, stop, num) ==
    Array([k \in 1..num |-> start + ((k - 1) * (stop - start)) \div num])

\* Passes the label loop makes at most before the model gives up on it.
MaxTries == 4

\* Variant of NewLabel: the name of the file is the label.
NewLabelPlain(new_label_base, i, kept) == [label |-> new_label_base, tries |-> 0]

\* Lines 827-832: the loop that picks the label; kept is
\* self._plot_lines_labels[1:], i the counter, tries the passes made.
RECURSIVE LabelLoop(_, _, _, _, _)
LabelLoop(new_label_base, new_label, i, kept, tries) ==
    IF tries = MaxTries \/ ~(\E k \in 1..Len(kept) : kept[k] = new_label)
    THEN [label |-> new_label, tries |-> tries]
    ELSE LabelLoop(new_label_base, Suffixed(new_label_base, i + 1), i + 1, kept,
                   tries + 1)

NewLabel(new_label_base, i, kept) ==
    LabelLoop(new_label_base, new_label_base, i, kept, 0)

NoMarkers == [x |-> <<>>, y |-> <<>>]
NoCursor == [enabled |-> FALSE, visible |-> FALSE]

\* Plot.__init__, lines 374-592.  The cursors are constructed enabled and
\* visible; __init__ then sets enabled to False (lines 473, 477).
PlotInit ==
    /\ plot_voltages = [i \in 1..LINES_COUNT |-> <<>>]
    /\ plot_frequencies = [i \in 1..LINES_COUNT |-> <<>>]
    /\ plot_lines_labels = [i \in 1..LINES_COUNT |-> Empty]
    /\ min_frequency = None
    /\ max_frequency = None
    /\ plot_found_lines = [i \in 1..LINES_COUNT |-> NoMarkers]
    /\ found_from = [i \in 1..LINES_COUNT |-> NoMarkers]
    /\ label_tries = 0
    /\ plot_pc = "constructed"
    /\ actions_enabled = FALSE
    /\ zoom_action = FALSE
    /\ pan_action = FALSE
    /\ mark_action = FALSE
    /\ trace_action = FALSE
    /\ trace_multiple_action = FALSE
    /\ mode = ""
    /\ trace_cursor = [enabled |-> FALSE, visible |-> TRUE]
    /\ trace_multiple_cursor = [enabled |-> FALSE, visible |-> TRUE]
    /\ canvas_focus = FALSE

toolbar_vars ==
    <<zoom_action, pan_action, mark_action, trace_action,
      trace_multiple_action, mode, trace_cursor, trace_multiple_cursor,
      canvas_focus>>

\* Plot.load_data, lines 802-884.
LoadData(file) ==
    IF ~file.fmd \/ ~file.frd
    THEN \* lines 820-821, 884: nothing to load
         /\ plot_pc' = "returned"
         /\ label_tries' = 0
         /\ UNCHANGED <<plot_voltages, plot_frequencies, plot_lines_labels,
                        min_frequency, max_frequency, plot_found_lines,
                        found_from, actions_enabled, toolbar_vars, not_plot>>
    ELSE
    LET lo == IF file.start.none THEN min_frequency ELSE file.start
        hi == IF file.stop.none THEN max_frequency ELSE file.stop
        picked == NewLabel(file.name, 1, Tail(plot_lines_labels))
    IN /\ plot_voltages' = Tail(plot_voltages) \o <<file.v>>
       /\ IF lo.none \/ hi.none
          THEN \* np.linspace(None, ...) raises TypeError
               /\ plot_pc' = "raised"
               /\ label_tries' = 0
               /\ UNCHANGED <<plot_frequencies, plot_lines_labels, min_frequency,
                              max_frequency, actions_enabled>>
          ELSE /\ plot_frequencies' =
                     Tail(plot_frequencies) \o <<linspace_open(lo.v, hi.v, Len(file.v))>>
               /\ plot_lines_labels' = Tail(plot_lines_labels) \o <<picked.label>>
               /\ label_tries' = picked.tries
               /\ min_frequency' = nonemin(lo, min_frequency)
               /\ max_frequency' = nonemax(hi, max_frequency)
               /\ IF Len(file.v) = 0
                  THEN \* np.min of an empty array raises ValueError
                       /\ plot_pc' = "raised"
                       /\ UNCHANGED actions_enabled
                  ELSE /\ plot_pc' = "returned"
                       /\ actions_enabled' = TRUE
       /\ UNCHANGED <<plot_found_lines, found_from, toolbar_vars, not_plot>>

\* What peaks_positions may return on n samples: no index, the first, the
\* last.
Detections(n) == {<<>>, <<0>>, <<n - 1>>}

Take(a, found) == Array([k \in 1..Len(found) |-> At(a, found[k])])

Min(a, b) == IF a <= b THEN a ELSE b

\* Plot.find_lines, lines 694-716.  has_model: self.model_signal.size >= 2;
\* found[i]: what the detection gives on channel i.
FindLines(has_model) ==
    /\ plot_pc' = "returned"
    /\ label_tries' = 0
    /\ IF ~has_model
       THEN UNCHANGED <<plot_found_lines, found_from>>
       ELSE \E found \in [1..LINES_COUNT -> {<<>>, <<0>>, <<1>>, <<2>>}] :
            /\ \A i \in 1..LINES_COUNT :
                  found[i] \in Detections(Min(Len(plot_frequencies[i]),
                                              Len(plot_voltages[i])))
            /\ plot_found_lines' =
                 [i \in 1..LINES_COUNT |->
                     IF Len(plot_frequencies[i]) < 2 \/ Len(plot_voltages[i]) < 2
                     THEN plot_found_lines[i]
                     ELSE [x |-> Take(plot_frequencies[i], found[i]),
                           y |-> Take(plot_voltages[i], found[i])]]
            /\ found_from' =
                 [i \in 1..LINES_COUNT |->
                     IF Len(plot_frequencies[i]) < 2 \/ Len(plot_voltages[i]) < 2
                     THEN found_from[i]
                     ELSE [x |-> plot_frequencies[i], y |-> plot_voltages[i]]]
    /\ UNCHANGED <<plot_voltages, plot_frequencies, plot_lines_labels,
                   min_frequency, max_frequency, actions_enabled, toolbar_vars,
                   not_plot>>

-----------------------------------------------------------------------------
(* Plot: the toolbar actions and the two cursors (src/backend.py).         *)

\* The toolbar and the cursors as one value, which the slots transform.
Toolbar ==
    [zoom_action |-> zoom_action, pan_action |-> pan_action,
     mark_action |-> mark_action, trace_action |-> trace_action,
     trace_multiple_action |-> trace_multiple_action, mode |-> mode,
     trace_cursor |-> trace_cursor,
     trace_multiple_cursor |-> trace_multiple_cursor,
     canvas_focus |-> canvas_focus]

SetToolbar(t) ==
    /\ zoom_action' = t.zoom_action
    /\ pan_action' = t.pan_action
    /\ mark_action' = t.mark_action
    /\ trace_action' = t.trace_action
    /\ trace_multiple_action' = t.trace_multiple_action
    /\ mode' = t.mode
    /\ trace_cursor' = t.trace_cursor
    /\ trace_multiple_cursor' = t.trace_multiple_cursor
    /\ canvas_focus' = t.canvas_focus

\* NavigationToolbar._update_buttons_checked, lines 288-295.
update_buttons_checked(t) ==
    [t EXCEPT !.pan_action = (t.mode = "pan/zoom"),
              !.zoom_action = (t.mode = "zoom rect")]

\* toolbar.zoom() and toolbar.pan(): the mode is switched on, or off when
\* it is the current one.
zoom(t) ==
    update_buttons_checked(
        [t EXCEPT !.mode = IF t.mode = "zoom rect" THEN "" ELSE "zoom rect"])
pan(t) ==
    update_buttons_checked(
        [t EXCEPT !.mode = IF t.mode = "pan/zoom" THEN "" ELSE "pan/zoom"])

\* if self._toolbar.mode == 'zoom rect': ... elif ... == 'pan/zoom': ...
ModeOff(t) ==
    IF t.mode = "zoom rect" THEN zoom(t)
    ELSE IF t.mode = "pan/zoom" THEN pan(t)
    ELSE t

RECURSIVE plot_mark_action_toggled(_, _)
RECURSIVE plot_trace_action_toggled(_, _)
RECURSIVE plot_trace_multiple_action_toggled(_, _)

\* QAction.setChecked(False): toggled is emitted when the state changes,
\* and the connected slot runs before setChecked returns.
UncheckMark(t) ==
    IF t.mark_action
    THEN plot_mark_action_toggled([t EXCEPT !.mark_action = FALSE], FALSE)
    ELSE t
UncheckTrace(t) ==
    IF t.trace_action
    THEN plot_trace_action_toggled([t EXCEPT !.trace_action = FALSE], FALSE)
    ELSE t
UncheckTraceMultiple(t) ==
    IF t.trace_multiple_action
    THEN plot_trace_multiple_action_toggled(
             [t EXCEPT !.trace_multiple_action = FALSE], FALSE)
    ELSE t

\* Lines 907-914.
plot_mark_action_toggled(t, new_value) ==
    LET t1 == ModeOff(t)
    IN IF new_value THEN UncheckTraceMultiple(UncheckTrace(t1)) ELSE t1

\* cursor.enabled = new_value; cursor.visible = new_value
CursorState(new_value) == [enabled |-> new_value, visible |-> new_value]

\* Lines 916-928.
plot_trace_action_toggled(t, new_value) ==
    LET t1 == IF new_value
              THEN [UncheckTraceMultiple(UncheckMark(t)) EXCEPT !.canvas_focus = TRUE]
              ELSE t
        t2 == ModeOff(t1)
    IN [t2 EXCEPT !.trace_cursor = CursorState(new_value),
                  !.trace_multiple_cursor = CursorState(FALSE)]

\* Lines 930-942.
plot_trace_multiple_action_toggled(t, new_value) ==
    LET t1 == IF new_value
              THEN [UncheckTrace(UncheckMark(t)) EXCEPT !.canvas_focus = TRUE]
              ELSE t
        t2 == ModeOff(t1)
    IN [t2 EXCEPT !.trace_cursor = CursorState(FALSE),
                  !.trace_multiple_cursor = CursorState(new_value)]

data_vars ==
    <<plot_voltages, plot_frequencies, plot_lines_labels, min_frequency,
      max_frequency, plot_found_lines, found_from, label_tries, plot_pc,
      actions_enabled>>

\* The user clicks a checkable action of the toolbar: its state flips and
\* toggled is emitted.
ToggleMark ==
    /\ actions_enabled
    /\ SetToolbar(plot_mark_action_toggled(
           [Toolbar EXCEPT !.mark_action = ~mark_action], ~mark_action))
    /\ UNCHANGED <<data_vars, not_plot>>

ToggleTrace ==
    /\ actions_enabled
    /\ SetToolbar(plot_trace_action_toggled(
           [Toolbar EXCEPT !.trace_action = ~trace_action], ~trace_action))
    /\ UNCHANGED <<data_vars, not_plot>>

ToggleTraceMultiple ==
    /\ actions_enabled
    /\ SetToolbar(plot_trace_multiple_action_toggled(
           [Toolbar EXCEPT !.trace_multiple_action = ~trace_multiple_action],
           ~trace_multiple_action))
    /\ UNCHANGED <<data_vars, not_plot>>

\* zoom_action.triggered and pan_action.triggered, lines 400-401.
Zoom ==
    /\ actions_enabled
    /\ SetToolbar(zoom(Toolbar))
    /\ UNCHANGED <<data_vars, not_plot>>

Pan ==
    /\ actions_enabled
    /\ SetToolbar(pan(Toolbar))
    /\ UNCHANGED <<data_vars, not_plot>>

\* Cursor._on_key_press of both cursors, lines 408-412 of _mplcursors.py:
\* both are connected to key_press_event of the canvas, and neither tests
\* whether it is enabled.
toggle(cursor, key) ==
    [enabled |-> IF key = "e" THEN ~cursor.enabled ELSE cursor.enabled,
     visible |-> IF key = "v" THEN ~cursor.visible ELSE cursor.visible]

CanvasKeyPress(key) ==
    /\ canvas_focus
    /\ trace_cursor' = toggle(trace_cursor, key)
    /\ trace_multiple_cursor' = toggle(trace_multiple_cursor, key)
    /\ UNCHANGED <<zoom_action, pan_action, mark_action, trace_action,
                   trace_multiple_action, mode, canvas_focus, data_vars,
                   not_plot>>

\* Plot.clear_lines, lines 748-752, as clear calls it.
clear_lines(lines) == [i \in 1..LINES_COUNT |-> NoMarkers]

\* Plot.clear, lines 762-800.
Clear ==
    /\ plot_voltages' = [i \in 1..LINES_COUNT |-> <<>>]
    /\ plot_frequencies' = [i \in 1..LINES_COUNT |-> <<>>]
    /\ plot_lines_labels' = [i \in 1..LINES_COUNT |-> Empty]
    /\ plot_found_lines' = clear_lines(plot_found_lines)
    /\ SetToolbar(UncheckTraceMultiple(UncheckTrace(UncheckMark(
           [Toolbar EXCEPT !.zoom_action = FALSE, !.pan_action = FALSE]))))
    /\ actions_enabled' = FALSE
    /\ plot_pc' = "returned"
    /\ label_tries' = 0
    /\ UNCHANGED <<min_frequency, max_frequency, found_from, not_plot>>

-----------------------------------------------------------------------------
(* App, main.py: the range controls.  Values are counted in quarters of    *)
(* the step of a spin box, so that every half the handlers take is exact;  *)
(* a spin box keeps multiples of four, the settings and the plot keep what *)
(* they are given.                                                         *)

\* The width of the frequency limits, in steps of the spin boxes.
MaxGrid == 2

MAX_FREQUENCY == 4 * (MaxGrid + 1)
MIN_FREQUENCY == MAX_FREQUENCY - 4 * MaxGrid

Max(a, b) == IF a >= b THEN a ELSE b

\* QDoubleSpinBox rounds what it is given to its decimals; a value half way
\* between two steps may go either way.
round(v) ==
    LET below == 4 * (v \div 4)
        rest == v % 4
    IN  IF rest = 0 THEN {v}
        ELSE IF rest < 2 THEN {below}
        ELSE IF rest > 2 THEN {below + 4}
        ELSE {below, below + 4}

bound(lowest, v, highest) ==
    IF v < lowest THEN lowest ELSE IF v > highest THEN highest ELSE v

\* QDoubleSpinBox.setValue, setMinimum, setMaximum: the value stays inside
\* the limits, and a limit set beyond the other one moves the other one.
setValue(spin, v) ==
    {[spin EXCEPT !.value = bound(spin.minimum, r, spin.maximum)] :
        r \in round(v)}

setMinimum(spin, v) ==
    {[minimum |-> r,
      maximum |-> Max(spin.maximum, r),
      value |-> bound(r, spin.value, Max(spin.maximum, r))] : r \in round(v)}

setMaximum(spin, v) ==
    {[minimum |-> Min(spin.minimum, r),
      maximum |-> r,
      value |-> bound(Min(spin.minimum, r), spin.value, r)] : r \in round(v)}

\* What a user can enter in a spin box: another value inside its limits.
Entries(spin) ==
    {v \in spin.minimum..spin.maximum : v % 4 = 0 /\ v # spin.value}

\* setup_ui: the limits of the spin boxes, and the values they start with.
FrequencySpin ==
    [minimum |-> MIN_FREQUENCY, maximum |-> MAX_FREQUENCY,
     value |-> MIN_FREQUENCY]

SpanSpin ==
    [minimum |-> 4, maximum |-> MAX_FREQUENCY - MIN_FREQUENCY, value |-> 4]

\* The settings: each key is absent or holds a value.
NoSettings == [frequency_lower |-> None, frequency_upper |-> None]

\* What an earlier session may have left in the settings.
StoredSettings ==
    {NoSettings,
     [frequency_lower |-> Some(MIN_FREQUENCY + 4),
      frequency_upper |-> Some(MAX_FREQUENCY)]}

get_config_value(stored, key, default) ==
    IF stored[key].none THEN default ELSE stored[key].v

\* set_config_value: nothing is written while _loading is set.
set_config_value(stored, is_loading, key, value) ==
    IF is_loading THEN stored ELSE [stored EXCEPT ![key] = Some(value)]

\* The factors of the coarse zoom buttons, 1 / 0.5 and 0.5, and the shifts
\* of the fine move buttons, here one step of the spin boxes to either side.
ZoomFactors == {[num |-> 2, den |-> 1], [num |-> 1, den |-> 2]}
Shifts == {0 - 4, 4}

\* load_config: the controls and the plot take the stored bounds, or the
\* limits of spin_frequency_min where none is stored.
\* _loading is set throughout, so the spin boxes' handlers return at once.
load_config(stored) ==
    LET min_freq == get_config_value(stored, "frequency_lower",
                                     FrequencySpin.minimum)
        max_freq == get_config_value(stored, "frequency_upper",
                                     FrequencySpin.maximum)
    IN  /\ loading = FALSE
        /\ settings = stored
        /\ \E a \in setValue(FrequencySpin, min_freq) :
               spin_frequency_min \in setMaximum(a, max_freq)
        /\ \E b \in setValue(FrequencySpin, max_freq) :
               spin_frequency_max \in setMinimum(b, min_freq)
        /\ spin_frequency_span \in setValue(SpanSpin, max_freq - min_freq)
        /\ spin_frequency_center \in
               setValue(FrequencySpin, (max_freq + min_freq) \div 2)
        /\ xlim = [lower |-> min_freq, upper |-> max_freq]

\* The state after App.__init__, which runs load_config once.
AppInit == \E stored \in StoredSettings : load_config(stored)

\* A spin box's own value after the user's entry, and the handler of its
\* valueChanged signal.  The handlers of the other spin boxes' signals
\* return at once, _loading being set when their values are written.
spin_frequency_min_changed ==
    \E new_value \in Entries(spin_frequency_min) :
    \E hi \in setMinimum(spin_frequency_max, new_value) :
        /\ ~loading
        /\ settings' = set_config_value(settings, loading,
                                        "frequency_lower", new_value)
        /\ spin_frequency_min' = [spin_frequency_min EXCEPT !.value = new_value]
        /\ spin_frequency_max' = hi
        /\ spin_frequency_center' \in
               setValue(spin_frequency_center, (new_value + hi.value) \div 2)
        /\ spin_frequency_span' \in
               setValue(spin_frequency_span, hi.value - new_value)
        /\ xlim' = [xlim EXCEPT !.lower = new_value]
        /\ loading' = FALSE
        /\ UNCHANGED not_app

spin_frequency_max_changed ==
    \E new_value \in Entries(spin_frequency_max) :
    \E lo \in setMaximum(spin_frequency_min, new_value) :
        /\ ~loading
        /\ settings' = set_config_value(settings, loading,
                                        "frequency_upper", new_value)
        /\ spin_frequency_max' = [spin_frequency_max EXCEPT !.value = new_value]
        /\ spin_frequency_min' = lo
        /\ spin_frequency_center' \in
               setValue(spin_frequency_center, (lo.value + new_value) \div 2)
        /\ spin_frequency_span' \in
               setValue(spin_frequency_span, new_value - lo.value)
        /\ xlim' = [xlim EXCEPT !.upper = new_value]
        /\ loading' = FALSE
        /\ UNCHANGED not_app

\* The common end of the handlers that move both frequency bounds: _loading
\* is set, then set_config_value is called, then the limits and the values
\* of the two spin boxes and the plot's range follow.
set_frequency_bounds(min_freq, max_freq) ==
    /\ settings' =
           set_config_value(
               set_config_value(settings, TRUE, "frequency_lower", min_freq),
               TRUE, "frequency_upper", max_freq)
    /\ \E a \in setMaximum(spin_frequency_min, max_freq) :
           spin_frequency_min' \in setValue(a, min_freq)
    /\ \E b \in setMinimum(spin_frequency_max, min_freq) :
           spin_frequency_max' \in setValue(b, max_freq)
    /\ xlim' = [lower |-> min_freq, upper |-> max_freq]
    /\ loading' = FALSE
    /\ UNCHANGED not_app

spin_frequency_center_changed ==
    \E new_value \in Entries(spin_frequency_center) :
        LET freq_span == spin_frequency_span.value
            min_freq == new_value - freq_span \div 2
            max_freq == new_value + freq_span \div 2
        IN  /\ ~loading
            /\ spin_frequency_center' =
                   [spin_frequency_center EXCEPT !.value = new_value]
            /\ set_frequency_bounds(min_freq, max_freq)
            /\ UNCHANGED spin_frequency_span

spin_frequency_span_changed ==
    \E new_value \in Entries(spin_frequency_span) :
        LET freq_center == spin_frequency_center.value
            min_freq == freq_center - new_value \div 2
            max_freq == freq_center + new_value \div 2
        IN  /\ ~loading
            /\ spin_frequency_span' =
                   [spin_frequency_span EXCEPT !.value = new_value]
            /\ set_frequency_bounds(min_freq, max_freq)
            /\ UNCHANGED spin_frequency_center

\* 2 * freq_span is kept, for half of freq_span to be exact.
button_zoom_x_clicked(factor) ==
    LET twice_span == (2 * spin_frequency_span.value * factor.num)
                          \div factor.den
        freq_center == spin_frequency_center.value
        min_freq == freq_center - twice_span \div 4
        max_freq == freq_center + twice_span \div 4
    IN  /\ ~loading
        /\ set_frequency_bounds(min_freq, max_freq)
        /\ spin_frequency_span' \in
               setValue(spin_frequency_span, twice_span \div 2)
        /\ UNCHANGED spin_frequency_center

button_move_x_clicked(shift) ==
    LET freq_span == spin_frequency_span.value
        freq_center == spin_frequency_center.value + shift
        min_freq == freq_center - freq_span \div 2
        max_freq == freq_center + freq_span \div 2
    IN  /\ ~loading
        /\ set_frequency_bounds(min_freq, max_freq)
        /\ spin_frequency_center' \in
               setValue(spin_frequency_center, freq_center)
        /\ UNCHANGED spin_frequency_span

-----------------------------------------------------------------------------
(* remove_spikes, detection.py, called on any boolean array.               *)

MaxSequence == 6
MaxCalls == 2

BoolArrays ==
    UNION {{Array(f) : f \in [1..n -> BOOLEAN]} : n \in 0..MaxSequence}

SpkInit ==
    /\ spk_given \in BoolArrays
    /\ spk_sequence = spk_given
    /\ spk_calls = 0

\* sequence[spikes] = sequence_left[spikes]; the array is returned.
RemoveSpikes ==
    /\ spk_calls < MaxCalls
    /\ spk_sequence' = remove_spikes(spk_sequence)
    /\ spk_calls' = spk_calls + 1
    /\ UNCHANGED spk_given
    /\ UNCHANGED not_spk

-----------------------------------------------------------------------------
(* The arrays of a call of correlation or of positions.  An argument is     *)
(* the caller's array itself; an assignment through a name, or an in-place  *)
(* operator, writes to the array the name refers to.                        *)

MaxObjects == 6
Objects == 1..MaxObjects

Unused == [used |-> FALSE, kind |-> "none", data |-> <<>>]
Object(kind, data) == [used |-> TRUE, kind |-> kind, data |-> data]

\* The place of an array that a numpy function creates for its result.
NewObject(h) ==
    CHOOSE o \in Objects :
        ~h[o].used /\ \A p \in 1..(o - 1) : h[p].used

\* Variant of np_copy: no copy is made, the name refers to the argument.
np_copyAliased(h, src) == src

\* np.copy(src): the result is a new array.
np_copy(h, src) == NewObject(h)

Unbound == [model_y |-> 0, another_x |-> 0, another_y |-> 0, data_x |-> 0,
            data_y |-> 0, corr |-> 0, core |-> 0, anti_core |-> 0,
            match |-> 0]

NoObjects == [o \in Objects |-> Unused]

\* The arrays a caller passes.
ArrInit ==
    /\ call_pc = "ready"
    /\ \/ /\ call = "correlation"
          /\ \E t \in Templates, y \in Measurements :
                objects = [NoObjects EXCEPT
                              ![1] = Object("float", Array(t)),
                              ![2] = Object("float", linspace(Len(y), 1)),
                              ![3] = Object("float", Array(y))]
          /\ refs = [Unbound EXCEPT !.model_y = 1, !.another_x = 2,
                                    !.another_y = 3]
       \/ /\ call = "positions"
          /\ \E y \in ParSignals :
                objects = [NoObjects EXCEPT
                              ![1] = Object("float", linspace(Len(y), 10)),
                              ![2] = Object("float", y)]
          /\ refs = [Unbound EXCEPT !.data_x = 1, !.data_y = 2]
    /\ before = objects

Value(name) == objects[refs[name]].data

\* correlation, lines 61-62 and 69: np.correlate returns a new array.
Correlate ==
    /\ call = "correlation"
    /\ call_pc = "ready"
    /\ IF Len(Value("another_y")) = 0
       THEN /\ call_pc' = "returned"
            /\ UNCHANGED <<objects, refs>>
       ELSE \E c \in {NewObject(objects)} :
              /\ call_pc' = "correlated"
              /\ objects' = [objects EXCEPT
                    ![c] = Object("float", correlate_same(Value("another_y"),
                                                          Value("model_y")))]
              /\ refs' = [refs EXCEPT !.corr = c]
    /\ UNCHANGED <<call, before, not_arr>>

\* Lines 63-64: _corr -= np.mean(_corr); _corr /= np.std(_corr), in place.
Normalize ==
    /\ call = "correlation"
    /\ call_pc = "correlated"
    /\ call_pc' = "normalized"
    /\ objects' = [objects EXCEPT
          ![refs.corr] = Object("normalized", Normalized(Value("corr")))]
    /\ UNCHANGED <<call, refs, before, not_arr>>

\* Lines 65-68: another_x[1] raises IndexError on a grid of one sample;
\* lfilter returns a new array, recorded by what it is applied to.
Filter ==
    /\ call = "correlation"
    /\ call_pc = "normalized"
    /\ IF Len(Value("another_x")) < 2
       THEN /\ call_pc' = "raised"
            /\ UNCHANGED <<objects, refs>>
       ELSE \E f \in {NewObject(objects)} :
              /\ call_pc' = "returned"
              /\ objects' = [objects EXCEPT
                    ![f] = Object("normalized", Value("corr"))]
              /\ refs' = [refs EXCEPT !.corr = f]
    /\ UNCHANGED <<call, before, not_arr>>

\* positions, lines 73-78: the guard, then core and anti_core.
CopyData ==
    /\ call = "positions"
    /\ call_pc = "ready"
    /\ IF Len(Value("data_x")) = 0 \/ Len(Value("data_y")) = 0
       THEN /\ call_pc' = "returned"
            /\ UNCHANGED <<objects, refs>>
       ELSE \E c \in {np_copy(objects, refs.data_y)} :
            \E h \in {[objects EXCEPT
                          ![c] = Object("float", Value("data_y"))]} :
            \E a \in {np_copy(h, refs.data_y)} :
              /\ call_pc' = "copied"
              /\ objects' = [h EXCEPT ![a] = Object("float", Value("data_y"))]
              /\ refs' = [refs EXCEPT !.core = c, !.anti_core = a]
    /\ UNCHANGED <<call, before, not_arr>>

\* Lines 79-89: core[f] = ... and anti_core[f] = ... for every f.
FillCores ==
    /\ call = "positions"
    /\ call_pc = "copied"
    /\ call_pc' = "cored"
    /\ \E cores \in {Cores(Value("data_x"), Value("data_y"))} :
          objects' = [objects EXCEPT
                         ![refs.core] = Object("cores", cores),
                         ![refs.anti_core] = Object("cores", cores)]
    /\ UNCHANGED <<call, refs, before, not_arr>>

\* Lines 95-102: np.concatenate returns a new array; np.full raises
\* ValueError on a negative count.
MakeMatch ==
    /\ call = "positions"
    /\ call_pc = "cored"
    /\ \E raw \in {RawMatch(Value("core"))} :
          IF Len(raw) > Len(Value("data_x"))
          THEN /\ call_pc' = "raised"
               /\ UNCHANGED <<objects, refs>>
          ELSE \E m \in {NewObject(objects)} :
                 /\ call_pc' = "matched"
                 /\ objects' = [objects EXCEPT
                       ![m] = Object("bool", Padded(Len(Value("data_x")), raw))]
                 /\ refs' = [refs EXCEPT !.match = m]
    /\ UNCHANGED <<call, before, not_arr>>

\* Lines 108 and 110: remove_spikes writes to the array it is given and
\* returns it.
Despike(from, to) ==
    /\ call = "positions"
    /\ call_pc = from
    /\ call_pc' = to
    /\ objects' = [objects EXCEPT
          ![refs.match] = Object("bool", remove_spikes(Value("match")))]
    /\ UNCHANGED <<call, refs, before, not_arr>>

\* Line 109: binary_dilation returns a new array.
DilateMatch ==
    /\ call = "positions"
    /\ call_pc = "despiked"
    /\ \E d \in {NewObject(objects)} :
          /\ call_pc' = "dilated"
          /\ objects' = [objects EXCEPT
                ![d] = Object("bool", binary_dilation(Value("match"), 4))]
          /\ refs' = [refs EXCEPT !.match = d]
    /\ UNCHANGED <<call, before, not_arr>>

\* Lines 111-113: islands and peaks are new arrays; reshape raises on an
\* odd number of transitions, np.argmax on an empty slice.
ReadPeaks ==
    /\ call = "positions"
    /\ call_pc = "cleaned"
    /\ \E t \in {Transitions(Value("match"))} :
          call_pc' =
              IF Len(t) % 2 # 0 THEN "raised"
              ELSE IF \E j \in 1..Len(Reshape2(t)) :
                         Slice(Value("data_y"), Reshape2(t)[j][1],
                               Reshape2(t)[j][2]) = <<>>
                   THEN "raised"
                   ELSE "returned"
    /\ UNCHANGED <<call, objects, refs, before, not_arr>>

-----------------------------------------------------------------------------
(* Specifications.                                                         *)

\* The parts of the program a specification does not exercise stay as
\* they are after construction.
NavIdle == NavInit

DetIdle ==
    /\ data_x = <<>>
    /\ data_y = <<>>
    /\ pc = "ready"
    /\ peaks = <<>>
    /\ match = <<>>
    /\ islands = <<>>

PkIdle ==
    /\ sig_x = <<>>
    /\ sig_y = <<>>
    /\ runs = <<>>

NavNext ==
    \/ SetFoundLines
    \/ ClearLines
    \/ PrevFoundLine
    \/ NextFoundLine

CorrIdle ==
    /\ model_y = <<>>
    /\ another_x = <<>>
    /\ another_y = <<>>
    /\ scores = <<>>

ParIdle ==
    /\ inv_arg = <<>>
    /\ inv_pc = <<>>
    /\ frames = <<>>
    /\ inv_result = <<>>

CurIdle ==
    /\ multiple = FALSE
    /\ enabled = FALSE
    /\ visible = FALSE
    /\ selections = <<>>
    /\ last_active_selection = -1
    /\ annotations = 0
    /\ cur_op = "none"
    /\ added = NoSelection
    /\ emitted = <<>>

FltIdle ==
    /\ fs = 0
    /\ low_cut = Finite(0)
    /\ high_cut = Finite(0)
    /\ btype = "none"
    /\ flt_pc = "ready"

PlotIdle == PlotInit

AppIdle == load_config(NoSettings)

SpkIdle ==
    /\ spk_given = <<>>
    /\ spk_sequence = <<>>
    /\ spk_calls = 0

ArrIdle ==
    /\ call = "none"
    /\ call_pc = "ready"
    /\ objects = NoObjects
    /\ refs = Unbound
    /\ before = NoObjects

NavStart == NavInit /\ DetIdle /\ PkIdle /\ CorrIdle /\ ParIdle /\
    CurIdle /\ FltIdle /\ PlotIdle /\ AppIdle /\ SpkIdle /\ ArrIdle

SpecNav == NavStart /\ [][NavNext]_vars

Init == DetInit /\ NavIdle /\ PkIdle /\ CorrIdle /\ ParIdle /\ CurIdle /\
    FltIdle /\ PlotIdle /\ AppIdle /\ SpkIdle /\ ArrIdle

Next == Positions

Spec == Init /\ [][Next]_vars

PkStart == PkInit /\ NavIdle /\ DetIdle /\ CorrIdle /\ ParIdle /\
    CurIdle /\ FltIdle /\ PlotIdle /\ AppIdle /\ SpkIdle /\ ArrIdle

PkNext == DetectPeaks

SpecPeaks == PkStart /\ [][PkNext]_vars

CorrStart == CorrInit /\ NavIdle /\ DetIdle /\ PkIdle /\ ParIdle /\
    CurIdle /\ FltIdle /\ PlotIdle /\ AppIdle /\ SpkIdle /\ ArrIdle

CorrNext == Correlation

SpecCorr == CorrStart /\ [][CorrNext]_vars

ParStart == ParInit /\ NavIdle /\ DetIdle /\ PkIdle /\ CorrIdle /\
    CurIdle /\ FltIdle /\ PlotIdle /\ AppIdle /\ SpkIdle /\ ArrIdle

ParNext ==
    \E i \in Invocations :
        \/ CoreLoop(i)
        \/ MatchMask(i)
        \/ FirstDespike(i)
        \/ Dilate(i)
        \/ SecondDespike(i)
        \/ ReadIslands(i)
        \/ PickPeaks(i)

SpecPar == ParStart /\ [][ParNext]_vars

CurStart == CurInit /\ NavIdle /\ DetIdle /\ PkIdle /\ CorrIdle /\
    ParIdle /\ FltIdle /\ PlotIdle /\ AppIdle /\ SpkIdle /\ ArrIdle

CurNext ==
    \/ \E index \in Points : AddSelection(index)
    \/ \E locked, dblclick \in BOOLEAN : \E pick \in Points \cup {NoPick} :
          SelectButtonPress(locked, dblclick, pick)
    \/ \E locked, dblclick \in BOOLEAN : DeselectButtonPress(locked, dblclick)
    \/ \E key \in Keys : KeyPress(key)
    \/ \E index \in Points : PickEvent(index)

SpecCursor == CurStart /\ [][CurNext]_vars

FltStart == FltInit /\ NavIdle /\ DetIdle /\ PkIdle /\ CorrIdle /\
    ParIdle /\ CurIdle /\ PlotIdle /\ AppIdle /\ SpkIdle /\ ArrIdle

FltNext ==
    \/ \E lo \in LowCuts : \E hi \in HighCuts : ButterBandpassFilter(lo, hi)
    \/ CorrelationFilter

SpecFilter == FltStart /\ [][FltNext]_vars

PlotStart == PlotInit /\ NavIdle /\ DetIdle /\ PkIdle /\ CorrIdle /\
    ParIdle /\ CurIdle /\ FltIdle /\ AppIdle /\ SpkIdle /\ ArrIdle

\* Loading, detection and clearing.
PlotNext ==
    \/ \E file \in Files : LoadData(file)
    \/ \E has_model \in BOOLEAN : FindLines(has_model)
    \/ Clear

SpecPlot == PlotStart /\ [][PlotNext]_vars

\* The toolbar and the keyboard, with loading and clearing, which enable
\* and disable the toolbar's actions.
ModesNext ==
    \/ \E file \in Files : LoadData(file)
    \/ Clear
    \/ ToggleMark
    \/ ToggleTrace
    \/ ToggleTraceMultiple
    \/ Zoom
    \/ Pan
    \/ \E key \in {"e", "v", "other"} : CanvasKeyPress(key)

SpecModes == PlotStart /\ [][ModesNext]_vars

AppStart == AppInit /\ NavIdle /\ DetIdle /\ PkIdle /\ CorrIdle /\
    ParIdle /\ CurIdle /\ FltIdle /\ PlotIdle /\ SpkIdle /\ ArrIdle

\* The user's entries in the spin boxes and clicks on the buttons.
AppNext ==
    \/ spin_frequency_min_changed
    \/ spin_frequency_max_changed
    \/ spin_frequency_center_changed
    \/ spin_frequency_span_changed
    \/ \E factor \in ZoomFactors : button_zoom_x_clicked(factor)
    \/ \E shift \in Shifts : button_move_x_clicked(shift)

SpecApp == AppStart /\ [][AppNext]_vars

SpkStart == SpkInit /\ NavIdle /\ DetIdle /\ PkIdle /\ CorrIdle /\
    ParIdle /\ CurIdle /\ FltIdle /\ PlotIdle /\ AppIdle /\ ArrIdle

SpkNext == RemoveSpikes

SpecSpikes == SpkStart /\ [][SpkNext]_vars

ArrStart == ArrInit /\ NavIdle /\ DetIdle /\ PkIdle /\ CorrIdle /\
    ParIdle /\ CurIdle /\ FltIdle /\ PlotIdle /\ AppIdle /\ SpkIdle

\* The statements of the two functions, in the order of the source.
ArrNext ==
    \/ Correlate
    \/ Normalize
    \/ Filter
    \/ CopyData
    \/ FillCores
    \/ MakeMatch
    \/ Despike("matched", "despiked")
    \/ DilateMatch
    \/ Despike("dilated", "cleaned")
    \/ ReadPeaks

SpecArrays == ArrStart /\ [][ArrNext]_vars

-----------------------------------------------------------------------------
(* Claims about prev_found_line and next_found_line (SpecNav).             *)

AllMarkers == UNION {Range(found_lines[c]) : c \in Channels}
Below == {p \in AllMarkers : p < init_frequency}
Above == {p \in AllMarkers : p > init_frequency}
SetMax(S) == CHOOSE m \in S : \A p \in S : p <= m
SetMin(S) == CHOOSE m \in S : \A p \in S : m <= p

\* C1: previous_peak returns, among all peak frequencies strictly less than
\* current over every channel, the one closest to current from below, for
\* every current value, also when current is not itself a peak.
C1_PrevIsClosestBelow ==
    (nav_op = "prev" /\ Below # {}) => nav_result = SetMax(Below)

\* C2: next_peak returns, among all peak frequencies strictly greater than
\* current over every channel, the one closest to current from above, for
\* every current value, also when current is not itself a peak.
C2_NextIsClosestAbove ==
    (nav_op = "next" /\ Above # {}) => nav_result = SetMin(Above)

\* C3: previous_peak (next_peak) returns current unchanged exactly when no
\* peak lies strictly below (strictly above) current in any channel.
C3_UnchangedExactlyWhenNone ==
    /\ nav_op = "prev" => (nav_result = init_frequency <=> Below = {})
    /\ nav_op = "next" => (nav_result = init_frequency <=> Above = {})

-----------------------------------------------------------------------------
(* Claims about positions (Spec).                                          *)

Returned == pc = "returned"

\* C4: every index returned satisfies 0 <= i < len(signal), and the
\* returned sequence is strictly ascending, without duplicates.
C4_PeaksInRangeAscending ==
    Returned =>
        /\ \A j \in 1..Len(peaks) : 0 <= peaks[j] /\ peaks[j] < Len(data_y)
        /\ \A j \in 1..Len(peaks) : \A k \in (j + 1)..Len(peaks) : peaks[j] < peaks[k]

C4_Witness == Returned /\ Len(peaks) >= 2

\* C5: no returned peak sits on the first or the last sample of its island
\* [start, end): an island whose maximum is at relative index 0 or
\* end - start - 1 yields no peak.
C5_NoPeakOnIslandEdge ==
    Returned =>
        \A j \in 1..Len(peaks) :
            /\ peaks[j] # islands[j][1]
            /\ peaks[j] # islands[j][2] - 1

\* C6: at most one peak per island of the cleaned mask: no two returned
\* indices lie in the same maximal run of true samples, and there are no
\* more peaks than runs.
TrueRunStarts ==
    {k \in 0..(Len(match) - 1) : At(match, k) /\ (k = 0 \/ ~At(match, k - 1))}

C6_OnePeakPerIsland ==
    Returned =>
        /\ \A j \in 1..Len(peaks) : \A k \in 1..Len(peaks) :
              (j # k /\ peaks[j] <= peaks[k]) =>
                  \E i \in peaks[j]..peaks[k] : ~At(match, i)
        /\ Len(peaks) <= Cardinality(TrueRunStarts)

C6_Witness ==
    /\ Returned
    /\ Len(peaks) >= 2
    /\ Cardinality(TrueRunStarts) >= 2
    /\ \E j \in 1..Len(peaks) : At(match, peaks[j])

\* C8: for an empty or single-sample (grid, signal) pair positions returns
\* an empty sequence and raises nothing.
C8_ShortInputEmptyResult ==
    (pc # "ready" /\ Len(data_y) <= 1) => (Returned /\ peaks = <<>>)

C8_Witness == Returned /\ Len(data_y) = 1 /\ Len(match) = 1

\* C9: a constant signal, all-zero in particular, yields an empty peak
\* list.
Constant(y) == \A k \in 1..Len(y) : y[k] = y[1]

C9_ConstantSignalNoPeaks ==
    (pc # "ready" /\ Constant(data_y)) => (Returned /\ peaks = <<>>)

\* An all-zero signal long enough for statistics to exist (core is a number
\* on some sample), after the call.
C9_Witness ==
    /\ Returned
    /\ Len(data_y) >= 16
    /\ \A k \in 1..Len(data_y) : data_y[k] = 0
    /\ \E f \in 0..(Len(data_x) - 1) : ~CoreAt(data_x, data_y, f).nan

\* C10: positions raises no exception for well-formed numeric input, also
\* when a flagged region is dilated up to the first or last sample.
C10_NeverRaises == pc # "raised"

-----------------------------------------------------------------------------
(* Claims about peaks_positions (SpecPeaks).                               *)

Both(t1, t2) == t1 < t2 /\ runs[t1].done /\ runs[t2].done

-----------------------------------------------------------------------------
(* Claims about correlation (SpecCorr).                                    *)

Scored(c) == scores[c].pc = "returned"
Sign(v) == IF v > 0 THEN 1 ELSE IF v < 0 THEN -1 ELSE 0

\* C11: correlation returns exactly len(another_y) samples, aligned with
\* another_x, for every template of at least one sample, also when the
\* template is longer than the measured signal.
C11_ScoreLengthIsMeasuredLength ==
    \A c \in Scales : Scored(c) => scores[c].size = Len(another_y)

\* C12: when the raw cross-correlation is constant, correlation neither
\* produces nor passes on NaN.
C12_NoNaNInScore ==
    \A c \in Scales : Scored(c) => ~scores[c].nan

\* C13: with an empty another_y, correlation returns an empty sequence,
\* raises nothing and reads neither another_x[0] nor another_x[1].
C13_EmptyMeasuredEmptyScore ==
    \A c \in Scales :
        (Len(another_y) = 0 /\ scores[c].pc # "none") =>
            (Scored(c) /\ scores[c].size = 0)

C13_Witness ==
    /\ Len(another_y) = 0
    /\ Len(another_x) = 0
    /\ Scored(2)

\* C16: multiplying another_y by a positive constant leaves the
\* normalised correlation unchanged, whenever the raw correlation is not
\* constant.  With samples num[k] / sqrt(den2), two sequences are equal
\* when the signs agree and the squares cross-multiply to the same value.
C16_ScaleLeavesScoreUnchanged ==
    \A c1 \in Scales : \A c2 \in Scales :
        (Scored(c1) /\ Scored(c2) /\ ~scores[c1].nan /\ ~scores[c2].nan) =>
            /\ scores[c1].size = scores[c2].size
            /\ \A k \in 1..scores[c1].size :
                  /\ Sign(scores[c1].num[k]) = Sign(scores[c2].num[k])
                  /\ scores[c1].num[k] * scores[c1].num[k] * scores[c2].den2
                       = scores[c2].num[k] * scores[c2].num[k] * scores[c1].den2

C16_Witness ==
    /\ Scored(1) /\ Scored(3)
    /\ ~scores[1].nan /\ ~scores[3].nan
    /\ scores[1].size >= 2
    /\ scores[1].num # scores[3].num

-----------------------------------------------------------------------------
(* Claims about the mask and the islands of positions (Spec).              *)

Called == pc # "ready"

\* C18: when the islands are identified, the first and the last sample of
\* the mask are false, so the transitions pair up into complete islands.
C18_MaskEndsFalse ==
    (Called /\ Len(match) > 0) =>
        (~At(match, 0) /\ ~At(match, Len(match) - 1) /\ pc # "raised")

\* C19: each island interval [start, end) covers exactly one maximal run
\* of true samples: every index in it is true in the cleaned mask, the
\* samples at start - 1 and at end are false, and every returned peak is a
\* sample flagged true.
C19_IslandIsTrueRun ==
    Returned =>
        /\ \A j \in 1..Len(islands) :
              /\ \A i \in islands[j][1]..(islands[j][2] - 1) : At(match, i)
              /\ islands[j][1] > 0 => ~At(match, islands[j][1] - 1)
              /\ islands[j][2] < Len(match) => ~At(match, islands[j][2])
        /\ \A j \in 1..Len(peaks) : At(match, peaks[j])

\* C20: a true sample of the raw mask with no other true sample within the
\* reach of the cleanup (the four iterations of dilation and the spike
\* test's one neighbour) is false in the cleaned mask.
RawOf == PaddedMatch(data_x, Cores(data_x, data_y))

Isolated(raw, k) ==
    /\ At(raw, k)
    /\ \A j \in 0..(Len(raw) - 1) :
          (j # k /\ Abs(j - k) <= 4 + 1) => ~At(raw, j)

C20_IsolatedFlickerRemoved ==
    (Called /\ Len(match) > 0) =>
        \A raw \in {RawOf} :
            \A k \in 0..(Len(match) - 1) : Isolated(raw, k) => ~At(match, k)

C20_Witness ==
    /\ Called
    /\ \E raw \in {RawOf} : \E k \in 0..(Len(match) - 1) : Isolated(raw, k)

-----------------------------------------------------------------------------
(* Claims about repeated and interleaved invocations (SpecPar).            *)

Finished(i) == inv_pc[i] \in {"returned", "raised"}

Alone(i) ==
    LET r == positions(inv_arg[i].x, inv_arg[i].y)
    IN [pc |-> r.pc, peaks |-> r.peaks]

C15_InterleavedAsAlone ==
    \A i \in Invocations : Finished(i) => inv_result[i] = Alone(i)

C15_Witness ==
    /\ Finished(1) /\ Finished(2)
    /\ inv_arg[1] # inv_arg[2]
    /\ Len(inv_result[1].peaks) >= 1
    /\ inv_result[2].pc = "raised"

-----------------------------------------------------------------------------
(* Claim about the cursor (SpecCursor).                                    *)

\* C17: a cursor built with multiple=False holds at most one selection once
\* an operation has returned, and after an operation that called
\* add_selection that selection is the one just added.
C17_SingleSelection ==
    ~multiple =>
        /\ Len(selections) <= 1
        /\ added # NoSelection => selections = <<added>>

C17_Witness ==
    /\ ~multiple
    /\ cur_op = "key_press"
    /\ added # NoSelection
    /\ annotations >= 3
    /\ selections = <<added>>

-----------------------------------------------------------------------------
(* Claims about the filter of the Correlator (SpecFilter).                 *)

Filtered == flt_pc # "ready"

\* The cutoffs as the code tests them: the lower one is valid when
\* low_cut / nyq > 0, the upper one when high_cut / nyq < fs.
LowValid == IF fs > 0 THEN low_cut.v > 0 ELSE low_cut.v < 0
HighValid ==
    IF high_cut.inf THEN fs < 0
    ELSE IF fs > 0 THEN 2 * high_cut.v < fs * fs
    ELSE 2 * high_cut.v > fs * fs

\* C21 as stated: band-pass when both cutoffs are valid, high-pass when the
\* lower cutoff is <= 0, low-pass when the upper cutoff meets or exceeds fs.
C21_KindAsStated ==
    Filtered =>
        /\ (LowValid /\ HighValid) => btype = "bandpass"
        /\ (~LowValid /\ HighValid) => btype = "highpass"
        /\ (LowValid /\ ~HighValid) => btype = "lowpass"

\* C21, amended: band-pass when both cutoffs are valid, low-pass when only
\* the lower cutoff is invalid (<= 0), high-pass when only the upper cutoff
\* is invalid (divided by the Nyquist frequency it meets or exceeds fs).
C21_KindFollowsCutoffs ==
    Filtered =>
        /\ (LowValid /\ HighValid) => btype = "bandpass"
        /\ (~LowValid /\ HighValid) => btype = "lowpass"
        /\ (LowValid /\ ~HighValid) => btype = "highpass"

C21_Witness ==
    /\ Filtered
    /\ ~LowValid /\ HighValid
    /\ btype = "lowpass"
    /\ flt_pc = "returned"

\* C22: with both cutoffs invalid the filter call ends in an error and no
\* score is returned; the call correlation makes (0.005 * fs, +infinity)
\* never ends in an error when fs > 0.
C22_BothInvalidFailsFast ==
    Filtered =>
        /\ (~LowValid /\ ~HighValid) => flt_pc = "raised"
        /\ ((low_cut.v <= 0 /\ (high_cut.inf \/ high_cut.v >= fs)) /\ fs > 0) =>
              flt_pc = "raised"
        /\ (low_cut = DefaultLowCut(fs) /\ high_cut = Infinity /\ fs > 0) =>
              flt_pc = "returned"

C22_Witness ==
    /\ Filtered
    /\ ~LowValid /\ ~HighValid
    /\ fs > 0
    /\ flt_pc = "raised"

-----------------------------------------------------------------------------
(* Claims about the channels of Plot (SpecPlot).                           *)

C24_ChannelsConsistent ==
    /\ Len(plot_frequencies) = LINES_COUNT
    /\ Len(plot_voltages) = LINES_COUNT
    /\ Len(plot_lines_labels) = LINES_COUNT
    /\ \A i \in 1..LINES_COUNT : Len(plot_frequencies[i]) = Len(plot_voltages[i])

\* C29: the labels that are not the placeholder are pairwise distinct, and
\* the loop that picks the suffix ends: it makes fewer passes than there
\* are channels.
C29_LabelsDistinct ==
    /\ \A i, j \in 1..LINES_COUNT :
          (i # j /\ plot_lines_labels[i] # Empty) =>
              plot_lines_labels[i] # plot_lines_labels[j]
    /\ label_tries < LINES_COUNT

C29_Witness ==
    /\ label_tries = 1
    /\ plot_lines_labels = <<<<"a", 2>>, <<"a", 2, 2>>>>

-----------------------------------------------------------------------------
(* Claim about the toolbar and the cursors of Plot (SpecModes).            *)

\* C27: the two cursors are never both enabled, and each is enabled only
\* while its toolbar action is checked.
C27_CursorsFollowToolbar ==
    /\ ~(trace_cursor.enabled /\ trace_multiple_cursor.enabled)
    /\ trace_cursor.enabled => trace_action
    /\ trace_multiple_cursor.enabled => trace_multiple_action

-----------------------------------------------------------------------------
(* Claims about the range controls of App (SpecApp).                       *)

\* C28: outside load_config, every handler that changes the displayed range
\* stores the new lower and upper bounds in the settings; for the frequency
\* range: each bound of the displayed range that a step changes is, after
\* the step, the value the settings hold for it.
C28_RangeChangeStored ==
    [][/\ xlim'.lower # xlim.lower =>
            settings'.frequency_lower = Some(xlim'.lower)
       /\ xlim'.upper # xlim.upper =>
            settings'.frequency_upper = Some(xlim'.upper)]_app_vars

-----------------------------------------------------------------------------
(* Claims about remove_spikes on any boolean array (SpecSpikes).           *)

\* An element that differs from its successor while its predecessor equals
\* its successor, the neighbours taken cyclically.
Spike(a, k) ==
    LET n == Len(a)
    IN  /\ At(a, k) # At(a, (k + 1) % n)
        /\ At(a, (k + n - 1) % n) = At(a, (k + 1) % n)

\* C30: what remove_spikes returns contains no spike, and remove_spikes
\* applied to it returns it unchanged.
C30_NoSpikeLeft ==
    spk_calls >= 1 =>
        /\ \A k \in 0..(Len(spk_sequence) - 1) : ~Spike(spk_sequence, k)
        /\ remove_spikes(spk_sequence) = spk_sequence

-----------------------------------------------------------------------------
(* Claims about the events of Cursor (SpecCursor).                         *)

\* C26: in a single-selection cursor that holds a selection, add_selection
\* emits "add" for the new selection and then "remove" for the old one; a
\* move of the selection by a key emits "remove" for the old selection and
\* then "add" for the new one.
C26_EventOrder ==
    [][(~multiple /\ Len(selections) = 1 /\ added' # NoSelection) =>
          /\ cur_op' \in {"add_selection", "select"} =>
                emitted' = <<Event("add", added'),
                             Event("remove", selections[1])>>
          /\ cur_op' = "key_press" =>
                emitted' = <<Event("remove", selections[1]),
                             Event("add", added')>>]_cur_vars

C26_Witness ==
    /\ ~multiple
    /\ cur_op = "key_press"
    /\ added = [annotation |-> 3, index |-> 0]
    /\ emitted = <<Event("remove", [annotation |-> 2, index |-> 1]),
                   Event("add", added)>>

-----------------------------------------------------------------------------
(* Claims about the arrays of a detection call (SpecArrays).               *)

Same(a, b) == a.kind = b.kind /\ a.data = b.data

\* C25: a detection call leaves its inputs unchanged: at every statement
\* of correlation and of positions, the last one included, each array that
\* was passed in holds the values it held when the call was made.
C25_InputsUnchanged ==
    \A o \in Objects : before[o].used => Same(objects[o], before[o])

C25_Witness ==
    /\ call = "positions"
    /\ call_pc = "returned"
    /\ refs.match # 0
    /\ \E k \in 1..Len(Value("match")) : Value("match")[k]
    /\ objects[refs.core].kind = "cores"

=============================================================================
